---- MODULE Spec2Model ----
(***************************************************************************)
(* Reconciliation engine of the Spring Boot charm (src/src/charm.py) with  *)
(* the Java application descriptors of src/src/java_application.py.        *)
(*                                                                         *)
(* Every Python function is an operator that takes the charm's view of the *)
(* outside world (self) and the list of observable operations performed so *)
(* far in the pass (log), and returns either Ok(value, log) or             *)
(* Raise(exception, log).  One event handler call is one action.           *)
(***************************************************************************)
EXTENDS Integers, Sequences, FiniteSets, TLC

\* ------------------------------------------------------------------------
\* Bounds of the model
\* ------------------------------------------------------------------------
MaxDeferred == 1

MaxDropAt == 3

\* the method of the charm that was last called on its own, as the unit tests
\* call it, the relation data it saw, and what it returned or raised
VARIABLE ret

\* ------------------------------------------------------------------------
\* Python call results and exceptions
\* ------------------------------------------------------------------------
Ok(v, log) == [log |-> log, tag |-> "ok", val |-> v]

Raise(e, log) == [log |-> log, tag |-> "raise", exc |-> e]

IsOk(r) == r.tag = "ok"

\* statement sequencing: the rest of a function body runs on the value and the
\* log of a call that returned, an exception propagates
Bind(r, Rest(_, _)) == IF r.tag = "ok" THEN Rest(r.val, r.log) ELSE r

\* try: r except type: Handler
Catch(r, type, Handler(_)) ==
    IF r.tag = "raise" /\ r.exc.type = type THEN Handler(r.log) ELSE r

\* a local variable
Let(v, Rest(_)) == Rest(v)

Op(name, arg) == [op |-> name, arg |-> arg]

CountOp(log, name) == Cardinality({i \in 1..Len(log) : log[i].op = name})

\* an exception the engine's handler does not catch
PyError(type) == [type |-> type]

MaintenanceStatus(message) == [kind |-> "maintenance", message |-> message]

ActiveStatus == [kind |-> "active", message |-> ""]

BlockedStatus(message) == [kind |-> "blocked", message |-> message]

WaitingStatus(message) == [kind |-> "waiting", message |-> message]

ReconciliationError(new_status, defer_event) ==
    [type |-> "ReconciliationError", new_status |-> new_status, defer_event |-> defer_event]

\* ------------------------------------------------------------------------
\* The workload container: connectivity and file system
\* ------------------------------------------------------------------------
\* a path component is a name split in stem and extension, a path is a
\* sequence of components
Name(stem, ext) == [stem |-> stem, ext |-> ext]

NameStr(n) == n.stem \o n.ext

RECURSIVE PathStr(_)
PathStr(p) == IF p = <<>> THEN "" ELSE "/" \o NameStr(Head(p)) \o PathStr(Tail(p))

endswith_jar(n) == n.ext = ".jar"

IsPrefix(p, q) == Len(p) <= Len(q) /\ SubSeq(q, 1, Len(p)) = p

JAVA_PATH ==
    << Name("layers", ""), Name("paketo-buildpacks_bellsoft-liberica", ""), Name("jre", ""),
       Name("bin", ""), Name("java", "") >>

JAR_LAUNCHER_PATH ==
    << Name("workspace", ""), Name("org", ""), Name("springframework", ""), Name("boot", ""),
       Name("loader", ""), Name("JarLauncher", ".class") >>

APP_DIR == << Name("app", "") >>

\* fs = [files |-> set of paths, dirs |-> set of paths of (possibly empty) directories]
Below(fs, p) == {f \in fs.files \cup fs.dirs : IsPrefix(p, f) /\ f # p}

\* the operations that need the container to answer
ContainerOps == { "can_connect", "exists", "isdir", "list_files", "exec" }

\* the container does not answer the next operation of a pass: it was down
\* when the pass began, or it drops at its drop_at-th operation (drop_at = 0:
\* it does not drop during the pass)
container_down(self, log) ==
    \/ ~self.up
    \/ /\ self.drop_at # 0
       /\ Cardinality({ i \in 1..Len(log) : log[i].op \in ContainerOps }) + 1 >= self.drop_at

\* an operation other than can_connect on a container that does not answer
\* raises ops.pebble.ConnectionError
container_isdir(self, p, log) ==
    IF container_down(self, log)
    THEN Raise(PyError("ConnectionError"), Append(log, Op("isdir", PathStr(p))))
    ELSE Ok(p \in self.fs.dirs \/ Below(self.fs, p) # {}, Append(log, Op("isdir", PathStr(p))))

container_exists(self, p, log) ==
    IF container_down(self, log)
    THEN Raise(PyError("ConnectionError"), Append(log, Op("exists", PathStr(p))))
    ELSE Ok(p \in self.fs.files \/ p \in self.fs.dirs \/ Below(self.fs, p) # {},
            Append(log, Op("exists", PathStr(p))))

\* the names of the entries of a directory; the supervisor answers a path
\* that does not exist with an APIError (404)
container_list_files(self, p, log) ==
    IF container_down(self, log)
    THEN Raise(PyError("ConnectionError"), Append(log, Op("list_files", PathStr(p))))
    ELSE IF p \in self.fs.dirs \/ Below(self.fs, p) # {}
    THEN Ok({f[Len(p) + 1] : f \in Below(self.fs, p)},
            Append(log, Op("list_files", PathStr(p))))
    ELSE Raise(PyError("APIError"), Append(log, Op("list_files", PathStr(p))))

container_can_connect(self, log) ==
    Ok(~container_down(self, log), Append(log, Op("can_connect", "spring-boot-app")))

\* ------------------------------------------------------------------------
\* java_application.py
\* ------------------------------------------------------------------------
NoArgs == [a \in {} |-> ""]

\* __init__(self, container, executable_jar_path): both parameters are required
ExecutableJarApplication(args, log) ==
    IF {"container", "executable_jar_path"} \subseteq DOMAIN args
    THEN Ok([variant |-> "ExecutableJarApplication",
             executable_jar_path |-> args.executable_jar_path,
             class_path |-> "", java_executable_path |-> ""], log)
    ELSE Raise(PyError("TypeError"), log)

\* __init__(self, container, class_path="/workspace", java_executable_path=...):
\* container is required
BuildpackApplication(args, log) ==
    IF "container" \in DOMAIN args
    THEN Ok([variant |-> "BuildpackApplication",
             executable_jar_path |-> "",
             class_path |-> IF "class_path" \in DOMAIN args
                            THEN args.class_path ELSE "/workspace",
             java_executable_path |-> IF "java_executable_path" \in DOMAIN args
                                      THEN args.java_executable_path
                                      ELSE PathStr(JAVA_PATH)], log)
    ELSE Raise(PyError("TypeError"), log)

command(java_app) ==
    IF java_app.variant = "ExecutableJarApplication"
    THEN << "java", "-jar", java_app.executable_jar_path >>
    ELSE << java_app.java_executable_path, "-cp", java_app.class_path,
            "org.springframework.boot.loader.JarLauncher" >>

\* str.startswith, str.endswith
startswith(s, prefix) == Len(prefix) <= Len(s) /\ SubSeq(s, 1, Len(prefix)) = prefix

endswith(s, suffix) ==
    Len(suffix) <= Len(s) /\ SubSeq(s, Len(s) - Len(suffix) + 1, Len(s)) = suffix

\* str.splitlines at "\n": the text between two line breaks, and what follows
\* the last one unless it is empty
splitlines(s) ==
    LET breaks == { i \in 1..Len(s) : SubSeq(s, i, i) = "\n" }
        starts == { a \in {1} \cup { i + 1 : i \in breaks } : a <= Len(s) }
        start(k) == CHOOSE a \in starts : Cardinality({ b \in starts : b < a }) = k - 1
        end(a) == CHOOSE e \in breaks \cup { Len(s) + 1 } :
                      e >= a /\ \A f \in breaks \cup { Len(s) + 1 } : f >= a => e <= f
    IN  [k \in 1..Cardinality(starts) |-> SubSeq(s, start(k), end(start(k)) - 1)]

\* path.split("/")[-1]: what follows the last "/"
split_last(path) ==
    LET slashes == { i \in 1..Len(path) : SubSeq(path, i, i) = "/" }
        last == CHOOSE i \in slashes \cup {0} : \A j \in slashes : j <= i
    IN  SubSeq(path, last + 1, Len(path))

\* container.exec(command).wait_output(): the standard output of the process,
\* ExecError when it exits with a code other than 0
process_wait_output(container, cmd, log) ==
    Let(Append(log, Op("exec", cmd[1] \o " " \o cmd[2])), LAMBDA l :
    IF container.jar.exit_code # 0 THEN Raise(PyError("ExecError"), l)
    ELSE Ok(container.jar.output, l))

\* variant: the whole line of the listing is compared, not its last component
ExecutableJarApplication_has_java_library_whole_path(java_app, container, library, log) ==
    Bind(process_wait_output(container,
                             << "jar", "-t", "--file", java_app.executable_jar_path >>, log),
         LAMBDA output, l :
    Let(splitlines(output), LAMBDA paths :
    Ok(\E i \in 1..Len(paths) :
           startswith(paths[i], library) /\ endswith(paths[i], ".jar"), l)))

ExecutableJarApplication_has_java_library(java_app, container, library, log) ==
    Bind(process_wait_output(container,
                             << "jar", "-t", "--file", java_app.executable_jar_path >>, log),
         LAMBDA output, l :
    Let(splitlines(output), LAMBDA paths :
    Ok(\E i \in 1..Len(paths) :
           startswith(split_last(paths[i]), library)
           /\ endswith(split_last(paths[i]), ".jar"), l)))

\* f"{self.class_path}/BOOT-INF/lib" for the class path /workspace
LIB_DIR == << Name("workspace", ""), Name("BOOT-INF", ""), Name("lib", "") >>

BuildpackApplication_has_java_library(java_app, container, library, log) ==
    Catch(Bind(container_list_files(container, LIB_DIR, log), LAMBDA files, l :
               Ok(\E file \in files :
                      startswith(NameStr(file), library) /\ endswith(NameStr(file), ".jar"),
                  l)),
          "FileNotFoundError", LAMBDA l : Ok(FALSE, l))

\* ------------------------------------------------------------------------
\* charm.py: container handle and application detection
\* ------------------------------------------------------------------------
\* variant: the Waiting error is raised without defer_event=True
_spring_boot_container_no_defer(self, log) ==
    Bind(container_can_connect(self, log), LAMBDA can_connect, l :
        IF ~can_connect
        THEN Raise(ReconciliationError(WaitingStatus("Waiting for pebble"), FALSE), l)
        ELSE Ok("spring-boot-app", l))

_spring_boot_container(self, log) ==
    Bind(container_can_connect(self, log), LAMBDA can_connect, l :
        IF ~can_connect
        THEN Raise(ReconciliationError(WaitingStatus("Waiting for pebble"), TRUE), l)
        ELSE Ok("spring-boot-app", l))

\* variant: with several jars in /app one of them is picked
_detect_java_application_any_jar(self, log) ==
    Bind(_spring_boot_container(self, log), LAMBDA container, l0 :
    Bind(container_exists(self, JAVA_PATH, l0), LAMBDA java, l1 :
    \* "and" evaluates the second exists only when the first holds
    Bind(IF java THEN container_exists(self, JAR_LAUNCHER_PATH, l1) ELSE Ok(FALSE, l1),
         LAMBDA both, l2 :
    IF both THEN BuildpackApplication(NoArgs, l2)
    ELSE Bind(container_isdir(self, APP_DIR, l2), LAMBDA isdir, l3 :
         IF isdir
         THEN Bind(container_list_files(self, APP_DIR, l3), LAMBDA files_in_app, l4 :
              Let({f \in files_in_app : endswith_jar(f)}, LAMBDA jar_files :
              IF jar_files = {}
              THEN Raise(ReconciliationError(BlockedStatus("No jar file found in /app"),
                                             FALSE), l4)
              ELSE ExecutableJarApplication(
                       [executable_jar_path |->
                            "/app/" \o NameStr(CHOOSE f \in jar_files : TRUE)], l4)))
         ELSE Raise(ReconciliationError(BlockedStatus("Unknown Java application type"),
                                        FALSE), l3)))))

_detect_java_application(self, log) ==
    Bind(_spring_boot_container(self, log), LAMBDA container, l0 :
    Bind(container_exists(self, JAVA_PATH, l0), LAMBDA java, l1 :
    \* "and" evaluates the second exists only when the first holds
    Bind(IF java THEN container_exists(self, JAR_LAUNCHER_PATH, l1) ELSE Ok(FALSE, l1),
         LAMBDA both, l2 :
    IF both THEN BuildpackApplication(NoArgs, l2)
    ELSE Bind(container_isdir(self, APP_DIR, l2), LAMBDA isdir, l3 :
         IF isdir
         THEN Bind(container_list_files(self, APP_DIR, l3), LAMBDA files_in_app, l4 :
              Let({f \in files_in_app : endswith_jar(f)}, LAMBDA jar_files :
              IF jar_files = {}
              THEN Raise(ReconciliationError(BlockedStatus("No jar file found in /app"),
                                             FALSE), l4)
              ELSE IF Cardinality(jar_files) > 1
              THEN Raise(ReconciliationError(
                             BlockedStatus("Multiple jar files found in /app"), FALSE), l4)
              ELSE ExecutableJarApplication(
                       [executable_jar_path |->
                            "/app/" \o NameStr(CHOOSE f \in jar_files : TRUE)], l4)))
         ELSE Raise(ReconciliationError(BlockedStatus("Unknown Java application type"),
                                        FALSE), l3)))))

\* ------------------------------------------------------------------------
\* Python values decoded from JSON, and Python dicts (insertion ordered)
\* ------------------------------------------------------------------------
None == [t |-> "null"]

JBool(b) == [t |-> "bool", b |-> b]

JInt(n) == [t |-> "int", n |-> n]

\* a number with a fraction or an exponent, kept as its text
JFloat(s) == [t |-> "float", s |-> s]

JStr(s) == [t |-> "str", s |-> s]

JList(l) == [t |-> "list", l |-> l]

\* a dict is a sequence of [k, v] items in insertion order
JObj(m) == [t |-> "obj", m |-> m]

dict_has(m, key) == \E i \in 1..Len(m) : m[i].k = key

dict_get(m, key) == m[CHOOSE i \in 1..Len(m) : m[i].k = key].v

dict_set(m, key, v) ==
    IF dict_has(m, key)
    THEN [i \in 1..Len(m) |-> IF m[i].k = key THEN [k |-> key, v |-> v] ELSE m[i]]
    ELSE Append(m, [k |-> key, v |-> v])

\* d[key], KeyError when the key is missing
dict_getitem(m, key, log) ==
    IF dict_has(m, key) THEN Ok(dict_get(m, key), log) ELSE Raise(PyError("KeyError"), log)

\* bool(x)
truthy(x) ==
    CASE x.t = "null" -> FALSE
      [] x.t = "bool" -> x.b
      [] x.t = "int" -> x.n # 0
      [] x.t = "float" -> x.s \notin {"0.0", "-0.0"}
      [] x.t = "str" -> x.s # ""
      [] x.t = "list" -> x.l # <<>>
      [] x.t = "obj" -> x.m # <<>>

\* isinstance(x, int): bool is a subclass of int
isinstance_int(x) == x.t \in {"int", "bool"}

isinstance_dict(x) == x.t = "obj"

\* the integer value of an int or a bool
int_value(x) == IF x.t = "bool" THEN (IF x.b THEN 1 ELSE 0) ELSE x.n

\* str(x) of an int or a bool, as an f-string formats it
format_int(x) == IF x.t = "bool" THEN (IF x.b THEN "True" ELSE "False") ELSE ToString(x.n)

\* ------------------------------------------------------------------------
\* json.loads / json.dumps over JSON text given as its sequence of tokens
\* ------------------------------------------------------------------------
Tok(k) == [k |-> k]

TStr(s) == [k |-> "str", s |-> s]

TInt(n) == [k |-> "int", n |-> n]

TFloat(s) == [k |-> "float", s |-> s]

ParseFail == [ok |-> FALSE, val |-> None, rest |-> <<>>]

Parsed(v, rest) == [ok |-> TRUE, val |-> v, rest |-> rest]

\* after a member or an element v: the closing bracket ends the container,
\* a comma continues it
RECURSIVE ParseValue(_), ParseMembers(_, _), ParseElements(_, _)
ParseValue(toks) ==
    IF toks = <<>> THEN ParseFail
    ELSE CASE Head(toks).k = "int" -> Parsed(JInt(Head(toks).n), Tail(toks))
           [] Head(toks).k = "float" -> Parsed(JFloat(Head(toks).s), Tail(toks))
           [] Head(toks).k = "str" -> Parsed(JStr(Head(toks).s), Tail(toks))
           [] Head(toks).k = "true" -> Parsed(JBool(TRUE), Tail(toks))
           [] Head(toks).k = "false" -> Parsed(JBool(FALSE), Tail(toks))
           [] Head(toks).k = "null" -> Parsed(None, Tail(toks))
           [] Head(toks).k = "{" -> IF Len(toks) > 1 /\ toks[2].k = "}"
                                    THEN Parsed(JObj(<<>>), SubSeq(toks, 3, Len(toks)))
                                    ELSE ParseMembers(Tail(toks), <<>>)
           [] Head(toks).k = "[" -> IF Len(toks) > 1 /\ toks[2].k = "]"
                                    THEN Parsed(JList(<<>>), SubSeq(toks, 3, Len(toks)))
                                    ELSE ParseElements(Tail(toks), <<>>)
           [] OTHER -> ParseFail

ParseMembers(toks, acc) ==
    IF Len(toks) >= 2 /\ toks[1].k = "str" /\ toks[2].k = ":"
    THEN Let(ParseValue(SubSeq(toks, 3, Len(toks))), LAMBDA v :
         IF ~v.ok \/ v.rest = <<>> THEN ParseFail
         ELSE IF Head(v.rest).k = "}"
         THEN Parsed(JObj(dict_set(acc, toks[1].s, v.val)), Tail(v.rest))
         ELSE IF Head(v.rest).k = ","
         THEN ParseMembers(Tail(v.rest), dict_set(acc, toks[1].s, v.val))
         ELSE ParseFail)
    ELSE ParseFail

ParseElements(toks, acc) ==
    Let(ParseValue(toks), LAMBDA v :
    IF ~v.ok \/ v.rest = <<>> THEN ParseFail
    ELSE IF Head(v.rest).k = "]" THEN Parsed(JList(Append(acc, v.val)), Tail(v.rest))
    ELSE IF Head(v.rest).k = "," THEN ParseElements(Tail(v.rest), Append(acc, v.val))
    ELSE ParseFail)

\* json.loads: the whole text must be one value, else JSONDecodeError
json_loads(raw, log) ==
    Let(ParseValue(raw), LAMBDA r :
    IF r.ok /\ r.rest = <<>> THEN Ok(r.val, log)
    ELSE Raise(PyError("JSONDecodeError"), log))

RECURSIVE json_dumps(_), DumpMembers(_), DumpElements(_)
json_dumps(x) ==
    CASE x.t = "null" -> << Tok("null") >>
      [] x.t = "bool" -> << Tok(IF x.b THEN "true" ELSE "false") >>
      [] x.t = "int" -> << TInt(x.n) >>
      [] x.t = "float" -> << TFloat(x.s) >>
      [] x.t = "str" -> << TStr(x.s) >>
      [] x.t = "list" -> << Tok("[") >> \o DumpElements(x.l) \o << Tok("]") >>
      [] x.t = "obj" -> << Tok("{") >> \o DumpMembers(x.m) \o << Tok("}") >>

DumpMembers(m) ==
    IF m = <<>> THEN <<>>
    ELSE << TStr(Head(m).k), Tok(":") >> \o json_dumps(Head(m).v)
         \o (IF Tail(m) = <<>> THEN <<>> ELSE << Tok(",") >> \o DumpMembers(Tail(m)))

DumpElements(l) ==
    IF l = <<>> THEN <<>>
    ELSE json_dumps(Head(l))
         \o (IF Tail(l) = <<>> THEN <<>> ELSE << Tok(",") >> \o DumpElements(Tail(l)))

\* ------------------------------------------------------------------------
\* charm.py: datasource, application-config and server port
\* ------------------------------------------------------------------------
DATABASE_NAME == "spring-boot"

Datasource(username, password, url) ==
    JObj(<< [k |-> "username", v |-> JStr(username)], [k |-> "password", v |-> JStr(password)],
            [k |-> "url", v |-> JStr(url)] >>)

\* variant: the triple of the previous resolution is kept when the relation
\* data is gone
_datasource_kept(self) ==
    Let(IF self.relations = <<>> THEN ret.relations ELSE self.relations, LAMBDA relations_data :
    IF relations_data # <<>>
    THEN Let(relations_data[1], LAMBDA data :
         IF dict_has(data, "endpoints") /\ dict_has(data, "username")
            /\ dict_has(data, "password")
         THEN Datasource(dict_get(data, "username"), dict_get(data, "password"),
                         "jdbc:mysql://" \o dict_get(data, "endpoints")[1] \o "/"
                         \o (IF dict_has(data, "database") THEN dict_get(data, "database")
                             ELSE DATABASE_NAME))
         ELSE Datasource("", "", ""))
    ELSE Datasource("", "", ""))

\* variant: a first entry without the three fields is skipped and the next
\* entry is used
_datasource_skip_incomplete(self) ==
    Let(SelectSeq(self.relations,
                  LAMBDA data : dict_has(data, "endpoints") /\ dict_has(data, "username")
                                /\ dict_has(data, "password")), LAMBDA complete :
    IF complete # <<>>
    THEN Datasource(dict_get(complete[1], "username"), dict_get(complete[1], "password"),
                    "jdbc:mysql://" \o dict_get(complete[1], "endpoints")[1] \o "/"
                    \o (IF dict_has(complete[1], "database")
                        THEN dict_get(complete[1], "database") ELSE DATABASE_NAME))
    ELSE Datasource("", "", ""))

\* variant: the url is built from the last entry and its last endpoint
_datasource_last(self) ==
    IF self.relations # <<>>
    THEN Let(self.relations[Len(self.relations)], LAMBDA data :
         IF dict_has(data, "endpoints") /\ dict_has(data, "username")
            /\ dict_has(data, "password")
         THEN Datasource(dict_get(data, "username"), dict_get(data, "password"),
                         "jdbc:mysql://"
                         \o dict_get(data, "endpoints")[Len(dict_get(data, "endpoints"))]
                         \o "/"
                         \o (IF dict_has(data, "database") THEN dict_get(data, "database")
                             ELSE DATABASE_NAME))
         ELSE Datasource("", "", ""))
    ELSE Datasource("", "", "")

\* self.relations is list(fetch_relation_data().values()); the value of the
\* endpoints key is held as the sequence of its comma-separated parts
_datasource(self) ==
    IF self.relations # <<>>
    THEN Let(self.relations[1], LAMBDA data :
         IF dict_has(data, "endpoints") /\ dict_has(data, "username")
            /\ dict_has(data, "password")
         THEN Datasource(dict_get(data, "username"), dict_get(data, "password"),
                         "jdbc:mysql://" \o dict_get(data, "endpoints")[1] \o "/"
                         \o (IF dict_has(data, "database") THEN dict_get(data, "database")
                             ELSE DATABASE_NAME))
         ELSE Datasource("", "", ""))
    ELSE Datasource("", "", "")

_application_config(self, log) ==
    IF self.config.application_config = <<>> THEN Ok(None, log)
    ELSE Catch(
        Bind(json_loads(self.config.application_config, log), LAMBDA application_config, l :
        IF isinstance_dict(application_config)
        THEN Let(IF dict_has(application_config.m, "spring") THEN application_config.m
                 ELSE dict_set(application_config.m, "spring", JObj(<<>>)), LAMBDA m1 :
             Let(dict_get(m1, "spring"), LAMBDA spring :
             \* the "in" test or the item assignment fails on a value that is no dict
             IF ~isinstance_dict(spring) THEN Raise(PyError("TypeError"), l)
             ELSE Ok(JObj(dict_set(m1, "spring",
                                   JObj(dict_set(spring.m, "datasource", _datasource(self))))),
                     l)))
        ELSE Raise(ReconciliationError(
                       BlockedStatus(
                           "Invalid application-config value, expecting an object in JSON"),
                       FALSE), l)),
        "JSONDecodeError", LAMBDA l :
        Raise(ReconciliationError(
                  BlockedStatus("Invalid application-config value, expecting JSON"), FALSE), l))

_spring_boot_port(self, log) ==
    Bind(_application_config(self, log), LAMBDA application_config, l :
    IF truthy(application_config) /\ dict_has(application_config.m, "server")
       /\ isinstance_dict(dict_get(application_config.m, "server"))
    THEN Bind(dict_getitem(dict_get(application_config.m, "server").m, "port", l),
              LAMBDA port, l1 :
         IF truthy(port)
         THEN IF ~isinstance_int(port) \/ int_value(port) <= 0
              THEN Raise(ReconciliationError(
                             BlockedStatus("Invalid server port configuration"), FALSE), l1)
              ELSE Ok(port, l1)
         ELSE Ok(JInt(8080), l1))
    ELSE Ok(JInt(8080), l))

\* ------------------------------------------------------------------------
\* Unbounded Python integers for byte counts: hi * 2^20 + lo, 0 <= lo < 2^20
\* ------------------------------------------------------------------------
Big(hi, lo) == [hi |-> hi, lo |-> lo]

\* n * 2^e for e in {0, 10, 20, 30}
BigScaled(n, e) ==
    CASE e = 0 -> Big(n \div 1048576, n % 1048576)
      [] e = 10 -> Big(n \div 1024, (n % 1024) * 1024)
      [] e = 20 -> Big(n, 0)
      [] e = 30 -> Big(n * 1024, 0)

BigGT(a, b) == a.hi > b.hi \/ (a.hi = b.hi /\ a.lo > b.lo)

BigMax(a, b) == IF BigGT(b, a) THEN b ELSE a

BigZero == Big(0, 0)

\* ------------------------------------------------------------------------
\* charm.py: memory quantities and jvm-config
\* ------------------------------------------------------------------------
\* the text of a quantity: decimal digits n, then mid (any text that is not a
\* digit, such as ".5"), then at most one unit letter
Quantity(n, mid, unit) == [n |-> n, mid |-> mid, unit |-> unit]

lower(c) == CASE c = "K" -> "k" [] c = "M" -> "m" [] c = "G" -> "g" [] c = "T" -> "t"
              [] OTHER -> c

\* variant: g scales like m
unit_scale_g_as_m(u) == CASE u = "k" -> 10 [] u = "m" -> 20 [] u = "g" -> 20

unit_scale(u) == CASE u = "k" -> 10 [] u = "m" -> 20 [] u = "g" -> 30

_parse_human_readable_units(number_with_unit, log) ==
    Let(lower(number_with_unit.unit), LAMBDA unit :
    IF unit \notin {"k", "m", "g"}
    \* int() of the whole text
    THEN IF number_with_unit.mid = "" /\ unit = ""
         THEN Ok(BigScaled(number_with_unit.n, 0), log)
         ELSE Raise(PyError("ValueError"), log)
    \* int() of the text without its last letter
    ELSE IF number_with_unit.mid = ""
         THEN Ok(BigScaled(number_with_unit.n, unit_scale(unit)), log)
         ELSE Raise(PyError("ValueError"), log))

\* a jvm-config string is the sequence of its blank-separated words; a word
\* is an option name, followed for -Xms/-Xmx by digits n (n = -1: none), a
\* unit letter and a tail
Word(opt, n, unit, tail) == [opt |-> opt, n |-> n, unit |-> unit, tail |-> tail]

\* (?:^|\s)<flag>(\d+[kmgtKMGT]?)\b on one word
regex_match(flag, w) ==
    /\ w.opt = flag
    /\ w.n >= 0
    /\ w.unit \in {"", "k", "m", "g", "t", "K", "M", "G", "T"}
    /\ w.tail = ""

RECURSIVE re_findall(_, _)
re_findall(flag, string) ==
    IF string = <<>> THEN <<>>
    ELSE (IF regex_match(flag, Head(string))
          THEN << Quantity(Head(string).n, "", Head(string).unit) >> ELSE <<>>)
         \o re_findall(flag, Tail(string))

\* variant: the first match is returned
_regex_find_first(pattern, string, default) ==
    Let(re_findall(pattern, string), LAMBDA matches :
    IF matches = <<>> THEN default ELSE matches[1])

_regex_find_last(pattern, string, default) ==
    Let(re_findall(pattern, string), LAMBDA matches :
    IF matches = <<>> THEN default ELSE matches[Len(matches)])

SPRING_BOOT_APP == "spring-boot-app"

\* self.pod.containers: the containers of the pod specification, each
\* [name, limits]; limits is NoLimits (resources.limits is None), NoMemory (no
\* "memory" key) or MemoryLimit(n, mid, unit, i) for the quantity text n mid
\* unit followed by "i" when i holds
NoLimits == [is_none |-> TRUE]

NoMemory == [is_none |-> FALSE, has_memory |-> FALSE]

MemoryLimit(n, mid, unit, i) ==
    [is_none |-> FALSE, has_memory |-> TRUE,
     memory |-> [n |-> n, mid |-> mid, unit |-> unit, i |-> i]]

\* str.removesuffix("i"); without the suffix the last letter stays
removesuffix_i(q) == Quantity(q.n, q.mid, q.unit)

read_namespaced_pod(self, log) ==
    Ok(self.pod, Append(log, Op("read_namespaced_pod", SPRING_BOOT_APP)))

_get_spring_boot_container_memory_constraint(self, log) ==
    Bind(_spring_boot_container(self, log), LAMBDA c, l0 :
    Bind(read_namespaced_pod(self, l0), LAMBDA spec, l1 :
    Let({i \in 1..Len(spec.containers) : spec.containers[i].name = SPRING_BOOT_APP},
        LAMBDA found :
    IF found = {} THEN Raise(PyError("RuntimeError"), l1)
    ELSE Let(spec.containers[CHOOSE i \in found : \A j \in found : i <= j].limits,
             LAMBDA limits :
         IF limits.is_none THEN Ok(BigZero, l1)
         ELSE IF ~limits.has_memory THEN Ok(BigZero, l1)
         ELSE _parse_human_readable_units(removesuffix_i(limits.memory), l1)))))

\* self.exec_outcome: "0" and "1" are exit codes, "timeout" is the 60 s limit
_exec(self, cmd, environment, log) ==
    Bind(_spring_boot_container(self, log), LAMBDA container, l0 :
    Let(Append(l0, Op("exec", cmd[1] \o " " \o cmd[2])), LAMBDA l1 :
    IF container_down(self, l0) THEN Raise(PyError("ConnectionError"), l1)
    ELSE IF self.exec_outcome = "timeout" THEN Raise(PyError("ChangeError"), l1)
    ELSE Ok([exit_code |-> IF self.exec_outcome = "0" THEN 0 ELSE 1,
             cmd |-> cmd, environment |-> environment], l1)))

list_insert(l, i, x) == SubSeq(l, 1, i) \o << x >> \o SubSeq(l, i + 1, Len(l))

JAVA_TOOL_OPTIONS == "JAVA_TOOL_OPTIONS"

\* variant: the memory limit is fetched before jvm-config is tested for
\* emptiness
_jvm_config_quota_first(self, log) ==
    Let(self.config.jvm_config, LAMBDA config :
    IF config = <<>>
    THEN Bind(_get_spring_boot_container_memory_constraint(self, log),
              LAMBDA container_memory_limit, l : Ok(<<>>, l))
    ELSE
    Bind(_parse_human_readable_units(
             _regex_find_last("-Xms", config, Quantity(0, "", "")), log),
         LAMBDA java_heap_initial_memory, l0 :
    Bind(_parse_human_readable_units(
             _regex_find_last("-Xmx", config, Quantity(0, "", "")), l0),
         LAMBDA java_heap_maximum_memory, l1 :
    Bind(_get_spring_boot_container_memory_constraint(self, l1),
         LAMBDA container_memory_limit, l2 :
    IF container_memory_limit # BigZero
       /\ BigGT(BigMax(java_heap_maximum_memory, java_heap_initial_memory),
                container_memory_limit)
    THEN Raise(ReconciliationError(
                   BlockedStatus("Invalid jvm-config, Java heap memory specification exceeds application memory constraint"),
                   FALSE), l2)
    ELSE
    Bind(_detect_java_application(self, l2), LAMBDA java_app, l3 :
    Bind(_exec(self, list_insert(command(java_app), 1, "--dry-run"),
               << [k |-> JAVA_TOOL_OPTIONS, v |-> config] >>, l3),
         LAMBDA result, l4 :
    IF result.exit_code # 0
    THEN Raise(ReconciliationError(BlockedStatus("Invalid jvm-config"), FALSE), l4)
    ELSE Ok(config, l4)))))))

_jvm_config(self, log) ==
    Let(self.config.jvm_config, LAMBDA config :
    IF config = <<>> THEN Ok(<<>>, log)
    ELSE
    Bind(_parse_human_readable_units(
             _regex_find_last("-Xms", config, Quantity(0, "", "")), log),
         LAMBDA java_heap_initial_memory, l0 :
    Bind(_parse_human_readable_units(
             _regex_find_last("-Xmx", config, Quantity(0, "", "")), l0),
         LAMBDA java_heap_maximum_memory, l1 :
    Bind(_get_spring_boot_container_memory_constraint(self, l1),
         LAMBDA container_memory_limit, l2 :
    IF container_memory_limit # BigZero
       /\ BigGT(BigMax(java_heap_maximum_memory, java_heap_initial_memory),
                container_memory_limit)
    THEN Raise(ReconciliationError(
                   BlockedStatus("Invalid jvm-config, Java heap memory specification exceeds application memory constraint"),
                   FALSE), l2)
    ELSE
    Bind(_detect_java_application(self, l2), LAMBDA java_app, l3 :
    Bind(_exec(self, list_insert(command(java_app), 1, "--dry-run"),
               << [k |-> JAVA_TOOL_OPTIONS, v |-> config] >>, l3),
         LAMBDA result, l4 :
    IF result.exit_code # 0
    THEN Raise(ReconciliationError(BlockedStatus("Invalid jvm-config"), FALSE), l4)
    ELSE Ok(config, l4)))))))

\* ------------------------------------------------------------------------
\* charm.py: environment, layer, supervisor and the engine
\* ------------------------------------------------------------------------
_spring_boot_env(self, log) ==
    Bind(_application_config(self, log), LAMBDA application_config, l0 :
    Bind(IF truthy(application_config)
         THEN Bind(_application_config(self, l0), LAMBDA again, l :
                   Ok(<< [k |-> "SPRING_APPLICATION_JSON", v |-> json_dumps(again)] >>, l))
         ELSE Ok(<<>>, l0),
         LAMBDA env, l1 :
    Bind(_jvm_config(self, l1), LAMBDA jvm_config, l2 :
    IF jvm_config # <<>> THEN Ok(dict_set(env, JAVA_TOOL_OPTIONS, jvm_config), l2)
    ELSE Ok(env, l2))))

RECURSIVE join(_, _)
join(sep, l) ==
    IF l = <<>> THEN ""
    ELSE IF Len(l) = 1 THEN l[1]
    ELSE l[1] \o sep \o join(sep, Tail(l))

CHECK_NAME == "wordpress-ready"

\* variant: the service is not started with the supervisor
Layer_disabled(cmd, environment, port) ==
    [services |->
        << [k |-> SPRING_BOOT_APP,
            v |-> [override |-> "replace",
                   summary |-> "Spring Boot application service",
                   environment |-> environment,
                   command |-> join(" ", cmd),
                   startup |-> "disabled"]] >>,
     checks |->
        << [k |-> CHECK_NAME,
            v |-> [override |-> "replace",
                   level |-> "alive",
                   http |-> [url |-> "http://localhost:" \o format_int(port)
                                     \o "/actuator/health"]]] >>]

Layer(cmd, environment, port) ==
    [services |->
        << [k |-> SPRING_BOOT_APP,
            v |-> [override |-> "replace",
                   summary |-> "Spring Boot application service",
                   environment |-> environment,
                   command |-> join(" ", cmd),
                   startup |-> "enabled"]] >>,
     checks |->
        << [k |-> CHECK_NAME,
            v |-> [override |-> "replace",
                   level |-> "alive",
                   http |-> [url |-> "http://localhost:" \o format_int(port)
                                     \o "/actuator/health"]]] >>]

\* variant: the environment and the port are resolved before the application
\* is detected
_generate_spring_boot_layer_config_first(self, log) ==
    Bind(_spring_boot_env(self, log), LAMBDA environment, l1 :
    Bind(_spring_boot_port(self, l1), LAMBDA port, l2 :
    Bind(_detect_java_application(self, l2), LAMBDA java_app, l0 :
    Ok(Layer(command(java_app), environment, port), l0))))

_generate_spring_boot_layer(self, log) ==
    Bind(_detect_java_application(self, log), LAMBDA java_app, l0 :
    Bind(_spring_boot_env(self, l0), LAMBDA environment, l1 :
    Bind(_spring_boot_port(self, l1), LAMBDA port, l2 :
    Ok(Layer(command(java_app), environment, port), l2))))

\* the supervisor's plan: add_layer(label, layer, combine=True) merges the
\* layer into the plan, an entry with override "replace" replacing the entry
\* of the same name
\* variant: the entries of the layer are appended to the plan, none replaced
dict_update_append(m, items) == m \o items

RECURSIVE dict_update(_, _)
dict_update(m, items) ==
    IF items = <<>> THEN m
    ELSE dict_update(dict_set(m, Head(items).k, Head(items).v), Tail(items))

\* the plan after the supervisor has served the add_layer calls of a log
RECURSIVE PlanAfter(_, _)
PlanAfter(plan, log) ==
    IF log = <<>> THEN plan
    ELSE PlanAfter(IF Head(log).op = "add_layer"
                   THEN [services |-> dict_update(plan.services, Head(log).layer.services),
                         checks |-> dict_update(plan.checks, Head(log).layer.checks)]
                   ELSE plan, Tail(log))

container_add_layer(label, layer, log) ==
    Ok(None, Append(log, [op |-> "add_layer", arg |-> label, layer |-> layer]))

container_replan(log) == Ok(None, Append(log, Op("replan", "")))

\* variant: the supervisor is replanned before the layer is generated
_service_reconciliation_replan_first(self, log) ==
    Bind(_spring_boot_container(self, log), LAMBDA container, l0 :
    Bind(container_replan(l0), LAMBDA r, l1 :
    Bind(_generate_spring_boot_layer(self, l1), LAMBDA layer, l2 :
    container_add_layer(SPRING_BOOT_APP, layer, l2))))

_service_reconciliation(self, log) ==
    Bind(_spring_boot_container(self, log), LAMBDA container, l0 :
    Bind(_generate_spring_boot_layer(self, l0), LAMBDA layer, l1 :
    Bind(container_add_layer(SPRING_BOOT_APP, layer, l1), LAMBDA added, l2 :
    container_replan(l2))))

\* the result of one call of the handler: the unit status it leaves, whether
\* it deferred its event, the exception that escaped it ("" when none did)
\* and the operations it performed
Outcome(status, deferred, escaped, log) ==
    [status |-> status, deferred |-> deferred, escaped |-> escaped, log |-> log]

set_status(new_status, log) == Append(log, Op("status", new_status.kind))

event_defer(log) == Append(log, Op("defer", ""))

\* variant: every ReconciliationError defers the event
reconciliation_always_defer(self) ==
    Let(_service_reconciliation(
            self, set_status(MaintenanceStatus("Start reconciliation process"), <<>>)),
        LAMBDA r :
    IF IsOk(r) THEN Outcome(ActiveStatus, FALSE, "", set_status(ActiveStatus, r.log))
    ELSE IF r.exc.type = "ReconciliationError"
    THEN Outcome(r.exc.new_status, TRUE, "",
                 event_defer(set_status(r.exc.new_status, r.log)))
    ELSE Outcome(MaintenanceStatus("Start reconciliation process"), FALSE, r.exc.type, r.log))

\* variant: the event is deferred before the status of the error is written
reconciliation_defer_first(self) ==
    Let(_service_reconciliation(
            self, set_status(MaintenanceStatus("Start reconciliation process"), <<>>)),
        LAMBDA r :
    IF IsOk(r) THEN Outcome(ActiveStatus, FALSE, "", set_status(ActiveStatus, r.log))
    ELSE IF r.exc.type = "ReconciliationError"
    THEN Outcome(r.exc.new_status, r.exc.defer_event, "",
                 set_status(r.exc.new_status,
                            IF r.exc.defer_event THEN event_defer(r.log) ELSE r.log))
    ELSE Outcome(MaintenanceStatus("Start reconciliation process"), FALSE, r.exc.type, r.log))

\* variant: the Maintenance status is not written at the start of the pass
reconciliation_no_maintenance(self) ==
    Let(_service_reconciliation(self, <<>>), LAMBDA r :
    IF IsOk(r) THEN Outcome(ActiveStatus, FALSE, "", set_status(ActiveStatus, r.log))
    ELSE IF r.exc.type = "ReconciliationError"
    THEN Outcome(r.exc.new_status, r.exc.defer_event, "",
                 IF r.exc.defer_event THEN event_defer(set_status(r.exc.new_status, r.log))
                 ELSE set_status(r.exc.new_status, r.log))
    ELSE Outcome(MaintenanceStatus("Start reconciliation process"), FALSE, r.exc.type, r.log))

reconciliation(self) ==
    Let(_service_reconciliation(
            self, set_status(MaintenanceStatus("Start reconciliation process"), <<>>)),
        LAMBDA r :
    IF IsOk(r) THEN Outcome(ActiveStatus, FALSE, "", set_status(ActiveStatus, r.log))
    ELSE IF r.exc.type = "ReconciliationError"
    THEN Outcome(r.exc.new_status, r.exc.defer_event, "",
                 IF r.exc.defer_event THEN event_defer(set_status(r.exc.new_status, r.log))
                 ELSE set_status(r.exc.new_status, r.log))
    ELSE Outcome(MaintenanceStatus("Start reconciliation process"), FALSE, r.exc.type, r.log))

\* ------------------------------------------------------------------------
\* The environment of the charm
\* ------------------------------------------------------------------------
File(dir, stem, ext) == dir \o << Name(stem, ext) >>

FS(files, dirs) == [files |-> files, dirs |-> dirs]

FileSystems ==
    { FS({}, {}),
      FS({File(APP_DIR, "test", ".jar"), File(APP_DIR, "data", ".json")}, {}),
      FS({File(APP_DIR, "test", ".jar"), File(APP_DIR, "second", ".jar")}, {}),
      FS({File(APP_DIR, "test", ".json")}, {}),
      FS({JAVA_PATH, JAR_LAUNCHER_PATH}, {}),
      FS({JAVA_PATH, File(APP_DIR, "test", ".jar")}, {}) }

\* application-config values: "", {"server": {"port": N}}, a, {"server": {}}
PortConfig(port) ==
    json_dumps(JObj(<< [k |-> "server", v |-> JObj(<< [k |-> "port", v |-> port] >>)] >>))

AppConfigs ==
    { <<>>, PortConfig(JInt(8888)), << Tok("a") >>,
      json_dumps(JObj(<< [k |-> "server", v |-> JObj(<<>>)] >>)) }

\* jvm-config values: "", -Xmx1G, -Xms4G, --invalid
JvmConfigs ==
    { <<>>, << Word("-Xmx", 1, "G", "") >>, << Word("-Xms", 4, "G", "") >>,
      << Word("--invalid", -1, "", "") >> }

\* the configurations an operator sets: each application-config with the
\* default jvm-config, each jvm-config with the default application-config,
\* and both invalid
Configs ==
    { [application_config |-> a, jvm_config |-> <<>>] : a \in AppConfigs }
    \cup { [application_config |-> <<>>, jvm_config |-> j] : j \in JvmConfigs }
    \cup { [application_config |-> << Tok("a") >>,
            jvm_config |-> << Word("--invalid", -1, "", "") >>] }

Credentials ==
    << [k |-> "endpoints", v |-> << "host:3306", "host2:3306" >>],
       [k |-> "username", v |-> "u"], [k |-> "password", v |-> "p"] >>

Pods ==
    { [containers |-> << [name |-> SPRING_BOOT_APP, limits |-> NoLimits] >>],
      [containers |-> << [name |-> SPRING_BOOT_APP,
                          limits |-> MemoryLimit(1, "", "G", TRUE)] >>] }

\* the java binary of the image on a dry run: an option it does not know
\* makes it exit with code 1
JavaDryRun(jvm_config) ==
    IF \E i \in 1..Len(jvm_config) : jvm_config[i].opt \notin {"-Xms", "-Xmx"}
    THEN "1" ELSE "0"

\* ------------------------------------------------------------------------
\* State
\* ------------------------------------------------------------------------
VARIABLES status, plan, config, relations, fs, pod, up, deferred, lastPass

vars == << status, plan, config, relations, fs, pod, up, deferred, lastPass, ret >>

EmptyPlan == [services |-> <<>>, checks |-> <<>>]

\* no method was called on its own yet
NoCall ==
    [fn |-> "", arg |-> None, relations |-> <<>>, prev_relations |-> <<>>,
     result |-> Ok(None, <<>>)]

NoPass ==
    [event |-> "", redelivered |-> FALSE, up |-> FALSE, drop_at |-> 0,
     prev_status |-> MaintenanceStatus(""), prev_plan |-> EmptyPlan,
     deferred |-> FALSE, escaped |-> "", log |-> <<>>]

Init ==
    /\ status = MaintenanceStatus("")
    /\ plan = EmptyPlan
    /\ config = [application_config |-> <<>>, jvm_config |-> <<>>]
    /\ relations = <<>>
    /\ fs \in FileSystems
    /\ pod \in Pods
    /\ up \in BOOLEAN
    /\ deferred = <<>>
    /\ lastPass = NoPass
    /\ ret = NoCall

\* the charm's view of the world during one pass
Self(image, cfg, rels, drop_at) ==
    [up |-> up, drop_at |-> drop_at, fs |-> image, config |-> cfg, relations |-> rels,
     pod |-> pod, exec_outcome |-> JavaDryRun(cfg.jvm_config)]

DropPoints == IF up THEN {0} \cup 2..MaxDropAt ELSE {0}

RemoveAt(q, i) == SubSeq(q, 1, i - 1) \o SubSeq(q, i + 1, Len(q))

\* the framework calls self.reconciliation(event); idx = 0 for a new event,
\* else the position of the re-emitted event in the queue of deferred events
Handle(event, idx, image, cfg, rels, drop_at) ==
    \E r \in {reconciliation(Self(image, cfg, rels, drop_at))} :
        /\ status' = r.status
        /\ plan' = PlanAfter(plan, r.log)
        /\ config' = cfg
        /\ relations' = rels
        /\ up' = (up /\ drop_at = 0)
        /\ deferred' = IF idx = 0
                       THEN (IF r.deferred THEN Append(deferred, event) ELSE deferred)
                       ELSE (IF r.deferred \/ r.escaped # "" THEN deferred
                             ELSE RemoveAt(deferred, idx))
        /\ lastPass' = [event |-> event, redelivered |-> idx # 0, up |-> up,
                        drop_at |-> drop_at, prev_status |-> status, prev_plan |-> plan,
                        deferred |-> r.deferred, escaped |-> r.escaped, log |-> r.log]
        /\ fs' = image
        /\ UNCHANGED << pod, ret >>

ConfigChanged ==
    /\ Len(deferred) < MaxDeferred
    /\ \E cfg \in Configs, d \in DropPoints : Handle("config_changed", 0, fs, cfg, relations, d)

\* pebble-ready follows every (re)start of the workload container, which may
\* come up with another image
PebbleReady ==
    /\ Len(deferred) < MaxDeferred
    /\ \E f \in FileSystems, d \in DropPoints :
          Handle("spring_boot_app_pebble_ready", 0, f, config, relations, d)

DatabaseCreated ==
    /\ Len(deferred) < MaxDeferred
    /\ \E d \in DropPoints : Handle("database_created", 0, fs, config, << Credentials >>, d)

RelationBroken ==
    /\ Len(deferred) < MaxDeferred
    /\ relations # <<>>
    /\ \E d \in DropPoints : Handle("mysql_relation_broken", 0, fs, config, <<>>, d)

Redeliver ==
    \E i \in 1..Len(deferred), d \in DropPoints : Handle(deferred[i], i, fs, config, relations, d)

ContainerDown ==
    /\ up
    /\ up' = FALSE
    /\ UNCHANGED << status, plan, config, relations, fs, pod, deferred, lastPass, ret >>

ContainerUp ==
    /\ ~up
    /\ up' = TRUE
    /\ UNCHANGED << status, plan, config, relations, fs, pod, deferred, lastPass, ret >>

Next ==
    \/ ConfigChanged
    \/ PebbleReady
    \/ DatabaseCreated
    \/ RelationBroken
    \/ Redeliver
    \/ ContainerDown
    \/ ContainerUp

Spec == Init /\ [][Next]_vars

\* ------------------------------------------------------------------------
\* The methods of the charm called one at a time on a charm whose container
\* is connectable, as tests/unit/test_charm.py calls them
\* ------------------------------------------------------------------------
\* values of server.port: 8888, 1, 0, -1, "8080", true, false, null, 1.5
PortValues ==
    { JInt(8888), JInt(1), JInt(0), JInt(-1), JStr("8080"), JBool(TRUE), JBool(FALSE), None,
      JFloat("1.5") }

Item(key, value) == [k |-> key, v |-> value]

\* {"spring": {"datasource": {"username": "x", "password": "y", "url": "z"}}}
DeclaredDatasource ==
    JObj(<< Item("spring", JObj(<< Item("datasource", Datasource("x", "y", "z")) >>)) >>)

\* application-config values: "", a, [1], 5, "s", {}, {"server": {}},
\* {"server": 5}, {"other": 1}, a declared datasource block, {"spring": "s"},
\* and {"server": {"port": v}} for each port value v
UnitAppConfigs ==
    { <<>>, << Tok("a") >>, json_dumps(JList(<< JInt(1) >>)), json_dumps(JInt(5)),
      json_dumps(JStr("s")), json_dumps(JObj(<<>>)),
      json_dumps(JObj(<< Item("server", JObj(<<>>)) >>)),
      json_dumps(JObj(<< Item("server", JInt(5)) >>)),
      json_dumps(JObj(<< Item("other", JInt(1)) >>)),
      json_dumps(DeclaredDatasource),
      json_dumps(JObj(<< Item("spring", JStr("s")) >>)) }
    \cup { PortConfig(v) : v \in PortValues }

\* jvm-config values: "", -Xms4G, -Xmx1G, -Xmx512m, -Xmx2048, "-Xmx4G -Xmx1G",
\* "-Xmx1G -Xmx4G", "-Xms4G -Xms1G", "-Xms1G -Xms4G", -Xmx1T, -Xms1t, -Xmx1025m,
\* --invalid
UnitJvmConfigs ==
    { <<>>, << Word("-Xms", 4, "G", "") >>, << Word("-Xmx", 1, "G", "") >>,
      << Word("-Xmx", 512, "m", "") >>, << Word("-Xmx", 2048, "", "") >>,
      << Word("-Xmx", 4, "G", ""), Word("-Xmx", 1, "G", "") >>,
      << Word("-Xmx", 1, "G", ""), Word("-Xmx", 4, "G", "") >>,
      << Word("-Xms", 4, "G", ""), Word("-Xms", 1, "G", "") >>,
      << Word("-Xms", 1, "G", ""), Word("-Xms", 4, "G", "") >>,
      << Word("-Xmx", 1, "T", "") >>, << Word("-Xms", 1, "t", "") >>,
      << Word("-Xmx", 1025, "m", "") >>,
      << Word("--invalid", -1, "", "") >> }

UnitConfigs ==
    { [application_config |-> a, jvm_config |-> <<>>] : a \in UnitAppConfigs }
    \cup { [application_config |-> <<>>, jvm_config |-> j] : j \in UnitJvmConfigs }

\* a second relation entry, and entries that lack one of the three fields
OtherCredentials ==
    << Item("endpoints", << "other:3306" >>), Item("username", "v"), Item("password", "q"),
       Item("database", "otherdb") >>

Without(data, key) == SelectSeq(data, LAMBDA item : item.k # key)

UnitRelations ==
    { <<>>, << Credentials >>, << Append(Credentials, Item("database", "db")) >>,
      << Credentials, OtherCredentials >>, << OtherCredentials, Credentials >>,
      << <<>> >>, << Without(Credentials, "endpoints") >>,
      << Without(Credentials, "username") >>, << Without(Credentials, "password") >>,
      << Without(Credentials, "password"), OtherCredentials >> }

UnitPods ==
    Pods \cup { [containers |-> << [name |-> SPRING_BOOT_APP, limits |-> NoMemory] >>] }

UnitInit ==
    /\ status = MaintenanceStatus("")
    /\ plan = EmptyPlan
    /\ config \in UnitConfigs
    /\ relations \in UnitRelations
    /\ fs \in { FS({File(APP_DIR, "test", ".jar")}, {}), FS({}, {}) }
    /\ pod \in UnitPods
    /\ up = TRUE
    /\ deferred = <<>>
    /\ lastPass = NoPass
    /\ ret = NoCall

CallWith(fn, arg, result) ==
    /\ ret' = [fn |-> fn, arg |-> arg, relations |-> relations,
               prev_relations |-> ret.relations, result |-> result]
    /\ UNCHANGED << status, plan, config, relations, fs, pod, up, deferred, lastPass >>

Call(fn, result) == CallWith(fn, None, result)

Call_datasource ==
    Call("_datasource", Ok(_datasource(Self(fs, config, relations, 0)), <<>>))

Call_application_config ==
    Call("_application_config", _application_config(Self(fs, config, relations, 0), <<>>))

Call_spring_boot_port ==
    Call("_spring_boot_port", _spring_boot_port(Self(fs, config, relations, 0), <<>>))

Call_jvm_config ==
    Call("_jvm_config", _jvm_config(Self(fs, config, relations, 0), <<>>))

Call_spring_boot_env ==
    Call("_spring_boot_env", _spring_boot_env(Self(fs, config, relations, 0), <<>>))

\* application objects constructed with their container, as java_application.py
\* declares the constructors
TestJarApplication ==
    ExecutableJarApplication([container |-> SPRING_BOOT_APP,
                              executable_jar_path |-> "/app/test.jar"], <<>>).val

WorkspaceApplication == BuildpackApplication([container |-> SPRING_BOOT_APP], <<>>).val

\* the layer _generate_spring_boot_layer returns for an application object:
\* the statements that follow the detection of the application
Call_generate_spring_boot_layer ==
    \E java_app \in { TestJarApplication, WorkspaceApplication } :
        CallWith("_generate_spring_boot_layer", java_app,
                 Bind(_spring_boot_env(Self(fs, config, relations, 0), <<>>),
                      LAMBDA environment, l1 :
                 Bind(_spring_boot_port(Self(fs, config, relations, 0), l1), LAMBDA port, l2 :
                 Ok(Layer(command(java_app), environment, port), l2))))

\* the statements of _service_reconciliation that follow the generation of
\* the layer, on the layer the last call returned
Call_add_layer ==
    /\ ret.fn = "_generate_spring_boot_layer"
    /\ IsOk(ret.result)
    /\ \E r \in { Bind(container_add_layer(SPRING_BOOT_APP, ret.result.val, <<>>),
                        LAMBDA added, l : container_replan(l)) } :
            /\ plan' = PlanAfter(plan, r.log)
            /\ ret' = [fn |-> "add_layer", arg |-> ret.result.val, relations |-> relations,
                       prev_relations |-> ret.relations, result |-> r, prev_plan |-> plan]
    /\ UNCHANGED << status, config, relations, fs, pod, up, deferred, lastPass >>

\* lib/charms/paas/v0/nginx_ingress_wrapper.py: the ingress data, computed for
\* the values of the options ingress-hostname and ingress-strip-url-prefix
APP_NAME == "spring-boot-k8s"

IngressOptions ==
    { [ingress_hostname |-> h, ingress_strip_url_prefix |-> p] :
        h \in { "", "new-hostname" }, p \in { "", "/foo" } }

_nginx_ingress_config(charm, options, log) ==
    Bind(_spring_boot_port(charm, log), LAMBDA port, l :
    Let(<< Item("service-hostname",
                IF options.ingress_hostname # "" THEN options.ingress_hostname
                ELSE APP_NAME),
           Item("service-name", APP_NAME),
           Item("service-port", format_int(port)) >>, LAMBDA ingress_config :
    IF options.ingress_strip_url_prefix # ""
    THEN Ok(dict_update(ingress_config,
                        << Item("rewrite-enabled", "true"),
                           Item("rewrite-target", "/$2"),
                           Item("path-routes",
                                options.ingress_strip_url_prefix \o "(/|$)(.*)") >>), l)
    ELSE Ok(ingress_config, l)))

Call_nginx_ingress_config ==
    \E options \in IngressOptions :
        CallWith("_nginx_ingress_config", options,
                 _nginx_ingress_config(Self(fs, config, relations, 0), options, <<>>))

\* the database relation is removed
RelationRemoved ==
    /\ relations # <<>>
    /\ relations' = <<>>
    /\ UNCHANGED << status, plan, config, fs, pod, up, deferred, lastPass, ret >>

UnitNext ==
    \/ Call_datasource
    \/ Call_application_config
    \/ Call_spring_boot_port
    \/ Call_jvm_config
    \/ Call_spring_boot_env
    \/ Call_generate_spring_boot_layer
    \/ Call_add_layer
    \/ Call_nginx_ingress_config
    \/ RelationRemoved

UnitSpec == UnitInit /\ [][UnitNext]_vars

\* ------------------------------------------------------------------------
\* The methods that look at the workload (its files, its memory limit, its
\* processes), called one at a time on a connectable container
\* ------------------------------------------------------------------------
\* an entry of the table of contents of an archive: its directory part (with
\* the final "/") and its base name ("" for a directory entry)
Entry(dir, base) == [dir |-> dir, base |-> base]

\* tables of contents: the two of tests/unit/test_charm.py (without and with
\* the MySQL connector), one whose only match is in a directory name, one
\* whose match lacks the .jar suffix, one with a jar at top level, an empty one
JarListings ==
    { << Entry("META-INF/", ""), Entry("META-INF/", "MANIFEST.MF"),
         Entry("BOOT-INF/lib/", ""), Entry("BOOT-INF/lib/", "log4j-to-slf4j-2.19.0.jar") >>,
      << Entry("META-INF/", ""), Entry("BOOT-INF/lib/", ""),
         Entry("BOOT-INF/lib/", "log4j-to-slf4j-2.19.0.jar"),
         Entry("BOOT-INF/lib/", "mysql-connector-j-2.19.0.jar") >>,
      << Entry("mysql-connector-j/", ""), Entry("mysql-connector-j/", "log4j.jar") >>,
      << Entry("BOOT-INF/lib/", "mysql-connector-j.txt") >>,
      << Entry("", "mysql-connector-j.jar") >>,
      <<>> }

\* the text "jar -t" prints for a table of contents: one entry per line
RECURSIVE jar_output(_)
jar_output(entries) ==
    IF entries = <<>> THEN ""
    ELSE Head(entries).dir \o Head(entries).base \o "\n" \o jar_output(Tail(entries))

\* what the jar process does: prints a table of contents and exits with 0,
\* or exits with 1
JarOutcomes ==
    { [exit_code |-> 0, entries |-> l, output |-> jar_output(l)] : l \in JarListings }
    \cup { [exit_code |-> 1, entries |-> <<>>, output |-> ""] }

Libraries == { "mysql-connector-j", "log4j", "" }

\* besides the images of FileSystems: /app/test.jar alone, an empty /app,
\* both buildpack markers next to two jars in /app, and buildpack images with
\* a library directory: holding the MySQL connector, holding another library
\* only, empty, and holding a file named like the connector without the .jar
\* suffix next to a directory named like it
WorkloadFileSystems ==
    FileSystems
    \cup { FS({File(APP_DIR, "test", ".jar")}, {}), FS({}, {APP_DIR}),
           FS({JAVA_PATH, JAR_LAUNCHER_PATH, File(APP_DIR, "test", ".jar"),
               File(APP_DIR, "second", ".jar")}, {}) }
    \cup
    { FS({JAVA_PATH, JAR_LAUNCHER_PATH, File(LIB_DIR, "mysql-connector-j-10.1.1", ".jar")}, {}),
      FS({JAVA_PATH, JAR_LAUNCHER_PATH, File(LIB_DIR, "log4j-to-slf4j-2.19.0", ".jar")}, {}),
      FS({JAVA_PATH, JAR_LAUNCHER_PATH}, {LIB_DIR}),
      FS({JAVA_PATH, JAR_LAUNCHER_PATH, File(LIB_DIR, "mysql-connector-j", ".txt"),
          File(Append(LIB_DIR, Name("mysql-connector-j", "")), "log4j", ".jar")}, {}) }

\* memory limits: none, no memory key, 1Gi, 2Gi
WorkloadPods ==
    UnitPods
    \cup { [containers |-> << [name |-> SPRING_BOOT_APP,
                               limits |-> MemoryLimit(2, "", "G", TRUE)] >>] }

WorkloadInit ==
    /\ status = MaintenanceStatus("")
    /\ plan = EmptyPlan
    /\ config \in { [application_config |-> <<>>, jvm_config |-> j] : j \in UnitJvmConfigs }
    /\ relations = <<>>
    /\ fs \in WorkloadFileSystems
    /\ pod \in WorkloadPods
    /\ up = TRUE
    /\ deferred = <<>>
    /\ lastPass = NoPass
    /\ ret = NoCall

\* arguments of the memory parser: 1G, 1g, 512m, 512M, 3k, 3K, 2048, 0, 1T, 1.5G
Call_parse_human_readable_units ==
    \E number_with_unit \in
            { Quantity(1, "", "G"), Quantity(1, "", "g"), Quantity(512, "", "m"),
              Quantity(512, "", "M"), Quantity(3, "", "k"), Quantity(3, "", "K"),
              Quantity(2048, "", ""), Quantity(0, "", ""), Quantity(1, "", "T"),
              Quantity(1, ".5", "G") } :
        CallWith("_parse_human_readable_units", number_with_unit,
                 _parse_human_readable_units(number_with_unit, <<>>))

Call_get_spring_boot_container_memory_constraint ==
    Call("_get_spring_boot_container_memory_constraint",
         _get_spring_boot_container_memory_constraint(Self(fs, config, relations, 0), <<>>))

\* what the process of a dry run does: exits with 0, exits with 1, or does
\* not end within the 60 s
Call_exec ==
    \E outcome \in { "0", "1", "timeout" } :
        CallWith("_exec", JStr(outcome),
                 _exec([Self(fs, config, relations, 0) EXCEPT !.exec_outcome = outcome],
                       << "java", "--dry-run", "-jar", "/app/test.jar" >>,
                       << Item(JAVA_TOOL_OPTIONS, config.jvm_config) >>, <<>>))

Call_detect_java_application ==
    Call("_detect_java_application",
         _detect_java_application(Self(fs, config, relations, 0), <<>>))

Call_ExecutableJarApplication_has_java_library ==
    \E library \in Libraries, jar \in JarOutcomes :
        CallWith("ExecutableJarApplication.has_java_library",
                 [library |-> library, entries |-> jar.entries, exit_code |-> jar.exit_code],
                 ExecutableJarApplication_has_java_library(
                     TestJarApplication,
                     [up |-> TRUE, drop_at |-> 0, fs |-> fs, jar |-> jar], library, <<>>))

Call_BuildpackApplication_has_java_library ==
    \E library \in Libraries :
        CallWith("BuildpackApplication.has_java_library", [library |-> library],
                 BuildpackApplication_has_java_library(
                     WorkspaceApplication,
                     [up |-> TRUE, drop_at |-> 0, fs |-> fs], library, <<>>))

WorkloadNext ==
    \/ Call_parse_human_readable_units
    \/ Call_get_spring_boot_container_memory_constraint
    \/ Call_exec
    \/ Call_detect_java_application
    \/ Call_jvm_config
    \/ Call_ExecutableJarApplication_has_java_library
    \/ Call_BuildpackApplication_has_java_library

WorkloadSpec == WorkloadInit /\ [][WorkloadNext]_vars

\* ------------------------------------------------------------------------
\* lib/charms/paas/v0: the dispatch of an event to the integration wrappers
\* ------------------------------------------------------------------------
MYSQL_CLIENT == "mysql_client"

NGINX_INGRESS == "nginx_ingress"

\* WRAPPER_LIBRARY_MAP[wrapper_name]["callback"]
WRAPPER_LIBRARY_MAP_callback(wrapper_name) ==
    CASE wrapper_name = MYSQL_CLIENT -> "_on_database_changed"
      [] wrapper_name = "postgresql_client" -> "_on_database_changed"
      [] wrapper_name = NGINX_INGRESS -> "_on_ingress_changed"

\* an event: its class and the relation it is about (config-changed has none)
Event(type, name, id) == [type |-> type, relation |-> [name |-> name, id |-> id]]

MysqlClientWrapper_must_run_on(event) ==
    event.type \in { "DatabaseCreatedEvent", "RelationBrokenEvent", "RelationCreatedEvent" }

\* fetch_relation_data() maps the id of each database relation to its data;
\* the i-th database relation has the id i; "paas" is the database name the
\* wrapper asks for
MysqlClientWrapper_run(event, charm, log) ==
    Let(Append(log, Op("relation_data[id]", event.relation.id)), LAMBDA l :
    IF event.relation.id \notin 1..Len(charm.self.relations)
    THEN Raise(PyError("KeyError"), l)
    ELSE Ok(<< Item(MYSQL_CLIENT,
                    dict_set(charm.self.relations[event.relation.id], "database", "paas")) >>,
            l))

NginxIngressWrapper_must_run_on(event) ==
    \/ event.type = "RelationBrokenEvent" /\ event.relation.name = NGINX_INGRESS
    \/ event.type \in { "IngressCreatedEvent", "ConfigChangedEvent" }

NginxIngressWrapper_run(event, charm, log) ==
    Bind(_nginx_ingress_config(charm.self, charm.options, log), LAMBDA ingress_config, l :
    Ok(<<>>, Append(l, [op |-> "update_config", arg |-> "", config |-> ingress_config])))

must_run_on(wrapper_name, event) ==
    IF wrapper_name = MYSQL_CLIENT THEN MysqlClientWrapper_must_run_on(event)
    ELSE NginxIngressWrapper_must_run_on(event)

run(wrapper_name, event, charm, log) ==
    IF wrapper_name = MYSQL_CLIENT THEN MysqlClientWrapper_run(event, charm, log)
    ELSE NginxIngressWrapper_run(event, charm, log)

\* reconcile: the loop over the items of self.wrappers that are left
RECURSIVE PAASCharmBase_reconcile(_, _, _, _)
PAASCharmBase_reconcile(charm, items, event, log) ==
    IF items = <<>> THEN Ok(None, log)
    ELSE IF must_run_on(Head(items), event)
    THEN Bind(run(Head(items), event, charm, Append(log, Op("run", Head(items)))),
              LAMBDA output, l :
         PAASCharmBase_reconcile(charm, Tail(items), event,
                                 Append(l, [op |-> "callback",
                                            arg |-> WRAPPER_LIBRARY_MAP_callback(Head(items)),
                                            output |-> output])))
    ELSE PAASCharmBase_reconcile(charm, Tail(items), event, log)

\* self.wrappers after __init__: one wrapper for each required relation of
\* the metadata that the library map knows, in the order of the metadata
Registrations ==
    { << MYSQL_CLIENT >>, << NGINX_INGRESS >>, << MYSQL_CLIENT, NGINX_INGRESS >>,
      << NGINX_INGRESS, MYSQL_CLIENT >> }

\* the framework calls charm.reconcile(event) for the events the registered
\* wrappers observe; the ingress relation has the id 9, which is the id of no
\* database relation
Reconcile(wrappers, options, event) ==
    CallWith("reconcile", [wrappers |-> wrappers, options |-> options, event |-> event],
             PAASCharmBase_reconcile([self |-> Self(fs, config, relations, 0),
                                      options |-> options, wrappers |-> wrappers],
                                     wrappers, event, <<>>))

Reconcile_database_created ==
    \E wrappers \in Registrations, options \in IngressOptions, id \in 1..Len(relations) :
        /\ \E i \in 1..Len(wrappers) : wrappers[i] = MYSQL_CLIENT
        /\ Reconcile(wrappers, options, Event("DatabaseCreatedEvent", MYSQL_CLIENT, id))

Reconcile_database_relation_broken ==
    \E wrappers \in Registrations, options \in IngressOptions, id \in 1..Len(relations) :
        /\ \E i \in 1..Len(wrappers) : wrappers[i] = MYSQL_CLIENT
        /\ Reconcile(wrappers, options, Event("RelationBrokenEvent", MYSQL_CLIENT, id))

Reconcile_ingress_created ==
    \E wrappers \in Registrations, options \in IngressOptions :
        /\ \E i \in 1..Len(wrappers) : wrappers[i] = NGINX_INGRESS
        /\ Reconcile(wrappers, options,
                     Event("IngressCreatedEvent", NGINX_INGRESS, 9))

Reconcile_ingress_relation_broken ==
    \E wrappers \in Registrations, options \in IngressOptions :
        /\ \E i \in 1..Len(wrappers) : wrappers[i] = NGINX_INGRESS
        /\ Reconcile(wrappers, options,
                     Event("RelationBrokenEvent", NGINX_INGRESS, 9))

Reconcile_config_changed ==
    \E wrappers \in Registrations, options \in IngressOptions :
        /\ \E i \in 1..Len(wrappers) : wrappers[i] = NGINX_INGRESS
        /\ Reconcile(wrappers, options, Event("ConfigChangedEvent", "", 0))

\* application-config values of the dispatch: "", port 8888, port 0
DispatchInit ==
    /\ status = MaintenanceStatus("")
    /\ plan = EmptyPlan
    /\ config \in { [application_config |-> a, jvm_config |-> <<>>] :
                      a \in { <<>>, PortConfig(JInt(8888)), PortConfig(JInt(0)) } }
    /\ relations \in UnitRelations
    /\ fs = FS({File(APP_DIR, "test", ".jar")}, {})
    /\ pod \in Pods
    /\ up = TRUE
    /\ deferred = <<>>
    /\ lastPass = NoPass
    /\ ret = NoCall

DispatchNext ==
    \/ Reconcile_database_created
    \/ Reconcile_database_relation_broken
    \/ Reconcile_ingress_created
    \/ Reconcile_ingress_relation_broken
    \/ Reconcile_config_changed

DispatchSpec == DispatchInit /\ [][DispatchNext]_vars

\* ------------------------------------------------------------------------
\* Vocabulary of the properties
\* ------------------------------------------------------------------------
PassRan == lastPass.event # ""

\* the container answered every connectivity check of the last pass
PassConnected == PassRan /\ lastPass.up /\ lastPass.drop_at = 0

BothMarkers(image) == JAVA_PATH \in image.files /\ JAR_LAUNCHER_PATH \in image.files

JarsInApp(image) ==
    {f \in image.files : Len(f) = 2 /\ f[1] = Name("app", "") /\ f[2].ext = ".jar"}

AppDirPresent(image) == \E f \in image.files \cup image.dirs : f[1] = Name("app", "") /\ Len(f) > 1

Recognised(image) == BothMarkers(image) \/ Cardinality(JarsInApp(image)) = 1

\* application-config is empty, or an object whose server.port is absent or
\* a positive integer
GoodAppConfigs ==
    { <<>>, PortConfig(JInt(8888)), json_dumps(JObj(<< [k |-> "server", v |-> JObj(<<>>)] >>)) }

\* jvm-config is empty, or within the quota and accepted by the dry run
GoodJvmConfig(cfg, p) ==
    \/ cfg.jvm_config = <<>>
    \/ /\ cfg.jvm_config = << Word("-Xmx", 1, "G", "") >>
    \/ /\ cfg.jvm_config = << Word("-Xms", 4, "G", "") >>
       /\ p.containers[1].limits.is_none

GoodInputs ==
    /\ Recognised(fs)
    /\ config.application_config \in GoodAppConfigs
    /\ GoodJvmConfig(config, pod)

FsProbeOps == {"exists", "isdir", "list_files"}

SupervisorOps == {"add_layer", "replan"}

LogHasAny(ops) == \E i \in 1..Len(lastPass.log) : lastPass.log[i].op \in ops

HealthUrl(p) == dict_get(p.checks, CHECK_NAME).http.url

\* ------------------------------------------------------------------------
\* Properties
\* ------------------------------------------------------------------------
\* C1: a pass with a connectable container, a recognised application and
\* valid application-config and jvm-config applies the layer to the
\* supervisor and ends with status Active.
C1_ValidPassEndsActive ==
    (PassConnected /\ GoodInputs)
        => (status = ActiveStatus /\ LogHasAny({"add_layer"}) /\ LogHasAny({"replan"}))

\* C2: a pass that does not end Active (Blocked, Waiting, or aborted by an
\* error) invokes neither add_layer nor replan, and the supervisor's plan
\* after the pass is its plan before the pass.
C2_NoSupervisorCallUnlessActive ==
    (PassRan /\ status.kind # "active")
        => (~LogHasAny(SupervisorOps) /\ plan = lastPass.prev_plan)

C2_Witness ==
    /\ PassConnected
    /\ status.kind = "blocked"
    /\ LogHasAny(FsProbeOps)
    /\ plan = lastPass.prev_plan

\* C3: every pass ends with the unit status Active, Blocked or Waiting, never
\* with the Maintenance status written at its start.
C3_PassEndsInTerminalStatus ==
    PassRan => status.kind \in {"active", "blocked", "waiting"}

\* C4: a pass that starts with the container not connectable ends Waiting
\* with its event deferred, and performs no filesystem probe, no command
\* execution, no memory-quota lookup, no add_layer and no replan.
C4_NotConnectableWaitsAndDefers ==
    (PassRan /\ ~lastPass.up)
        => /\ status.kind = "waiting"
           /\ lastPass.deferred
           /\ \E i \in 1..Len(deferred) : deferred[i] = lastPass.event
           /\ ~LogHasAny(FsProbeOps \cup {"exec", "read_namespaced_pod"} \cup SupervisorOps)

C4_Witness ==
    /\ PassRan
    /\ ~lastPass.up
    /\ ~lastPass.redelivered
    /\ status = WaitingStatus("Waiting for pebble")
    /\ deferred # <<>>

\* C5: the event of a pass is deferred if and only if the pass ends in the
\* connectivity Waiting outcome; a pass that ends Blocked or Active, or that
\* is aborted, does not defer.
C5_DeferredIffWaiting ==
    PassRan => /\ lastPass.deferred <=> (status = WaitingStatus("Waiting for pebble"))
               /\ LogHasAny({"defer"}) <=> lastPass.deferred
               /\ status.kind \in {"blocked", "active"} => ~lastPass.deferred

C5_Witness ==
    /\ PassConnected
    /\ status.kind = "blocked"
    /\ ~lastPass.deferred
    /\ ~LogHasAny({"defer"})

\* C6: event.defer() is called only after the unit status has been written to
\* the failure's status: the status operation that precedes a defer in the
\* pass is never the Maintenance one.
C6_StatusWrittenBeforeDefer ==
    \A j \in 1..Len(lastPass.log) :
        lastPass.log[j].op = "defer"
            => /\ j > 1
               /\ lastPass.log[j - 1].op = "status"
               /\ lastPass.log[j - 1].arg \in {"waiting", "blocked"}
               /\ lastPass.log[j - 1].arg = status.kind

C6_Witness ==
    /\ LogHasAny({"defer"})
    /\ lastPass.log[Len(lastPass.log)].op = "defer"
    /\ status.kind = "waiting"

\* C7 (as claimed): the steps fail in the order application configuration,
\* port, JVM configuration, classification; with an application-config that
\* is not JSON and no jar in /app the Blocked status is the one of the
\* application configuration.
C7_ConfigFailureWinsOverClassification ==
    (PassConnected /\ config.application_config = << Tok("a") >>
        /\ ~BothMarkers(fs) /\ AppDirPresent(fs) /\ JarsInApp(fs) = {})
        => status = BlockedStatus("Invalid application-config value, expecting JSON")

\* the Blocked message of a classification that fails
ClassificationMessage(image) ==
    IF ~AppDirPresent(image) THEN "Unknown Java application type"
    ELSE IF JarsInApp(image) = {} THEN "No jar file found in /app"
    ELSE "Multiple jar files found in /app"

\* C7 (amended): classification runs first; when it fails the Blocked status
\* is the classification's, whatever the application-config and the
\* jvm-config are, and the pass has read no quota and run no command.
C7_ClassificationFailureWins ==
    (PassConnected /\ ~Recognised(fs))
        => /\ status = BlockedStatus(ClassificationMessage(fs))
           /\ ~LogHasAny({"exec", "read_namespaced_pod"})

C7_Witness ==
    /\ PassConnected
    /\ config.application_config = << Tok("a") >>
    /\ config.jvm_config # <<>>
    /\ status = BlockedStatus("No jar file found in /app")

\* C8: once the container is connectable, the re-delivery of a deferred event
\* runs a complete pass that ends Active or Blocked.
C8_RedeliveredPassEndsActiveOrBlocked ==
    (PassConnected /\ lastPass.redelivered /\ lastPass.prev_status.kind = "waiting")
        => status.kind \in {"active", "blocked"}

\* C9: the outcome of a pass depends on its inputs only, so a pass on valid
\* inputs that follows a Blocked pass ends Active.
C9_ValidPassAfterBlockedEndsActive ==
    (PassConnected /\ GoodInputs /\ lastPass.prev_status.kind = "blocked")
        => status = ActiveStatus

\* C10: with application-config the serialization of {"server": {"port": N}},
\* N a positive integer, the applied layer's health-check URL is
\* http://localhost:N/actuator/health and SPRING_APPLICATION_JSON of the
\* service environment carries server.port = N.
C10_PortReachesAppliedLayer ==
    (PassConnected /\ Recognised(fs) /\ config.jvm_config = <<>>
        /\ config.application_config = PortConfig(JInt(8888)))
        => /\ dict_has(plan.checks, CHECK_NAME)
           /\ HealthUrl(plan) = "http://localhost:8888/actuator/health"
           /\ LET env == dict_get(plan.services, SPRING_BOOT_APP).environment
                  app_json == ParseValue(dict_get(env, "SPRING_APPLICATION_JSON")).val
              IN  dict_get(dict_get(app_json.m, "server").m, "port") = JInt(8888)

\* ------------------------------------------------------------------------
\* Vocabulary of the properties of single calls
\* ------------------------------------------------------------------------
Called(fn) == ret.fn = fn

Returned(v) == ret.result.tag = "ok" /\ ret.result.val = v

Raised(e) == ret.result.tag = "raise" /\ ret.result.exc = e

InvalidPort == ReconciliationError(BlockedStatus("Invalid server port configuration"), FALSE)

\* the values of PortValues that are positive integers
PositivePorts == { JInt(8888), JInt(1) }

\* C11: with application-config an object whose server.port is present and
\* is not a positive integer (0, -1, "8080", true, false, null, 1.5), port
\* resolution fails with the invalid-port Blocked status and never returns
\* 8080 or the value.
C11_InvalidPortIsRejected ==
    (Called("_spring_boot_port")
        /\ config.application_config \in { PortConfig(v) : v \in PortValues \ PositivePorts })
        => Raised(InvalidPort)

\* application-config values in which server.port is absent: "", {},
\* {"other": 1}, {"server": {}}
PortAbsentConfigs ==
    { <<>>, json_dumps(JObj(<<>>)), json_dumps(JObj(<< Item("other", JInt(1)) >>)),
      json_dumps(JObj(<< Item("server", JObj(<<>>)) >>)) }

\* C12: when server.port is absent (application-config empty, an object
\* without a server key, or an object whose server value has no port key),
\* port resolution returns 8080 and does not fail.
C12_AbsentPortResolves8080 ==
    (Called("_spring_boot_port") /\ config.application_config \in PortAbsentConfigs)
        => Returned(JInt(8080))

\* C13: a pass on a recognised application whose application-config is not
\* parseable JSON ends Blocked with "Invalid application-config value,
\* expecting JSON" and does not defer its event.
C13_InvalidJsonBlocksPass ==
    (PassConnected /\ Recognised(fs) /\ config.application_config = << Tok("a") >>)
        => /\ status = BlockedStatus("Invalid application-config value, expecting JSON")
           /\ ~lastPass.deferred

\* a database integration is active: the first relation entry has the three
\* fields, so the resolved triple is not empty
IntegrationActive(rels) ==
    /\ rels # <<>>
    /\ dict_has(rels[1], "endpoints")
    /\ dict_has(rels[1], "username")
    /\ dict_has(rels[1], "password")

\* spring.datasource of the SPRING_APPLICATION_JSON value of an environment
EnvDatasource(env) ==
    dict_get(dict_get(ParseValue(dict_get(env, "SPRING_APPLICATION_JSON")).val.m, "spring").m,
             "datasource")

\* C14: whenever a database integration is active and the service
\* environment is resolved without error, it carries the current datasource
\* triple under spring.datasource of SPRING_APPLICATION_JSON, for every value
\* of application-config.
C14_EnvCarriesDatasource ==
    (Called("_spring_boot_env") /\ ret.relations = relations /\ IntegrationActive(relations)
        /\ IsOk(ret.result))
        => /\ dict_has(ret.result.val, "SPRING_APPLICATION_JSON")
           /\ EnvDatasource(ret.result.val) = _datasource(Self(fs, config, relations, 0))

\* C15: when the first relation entry has endpoints, username and password,
\* datasource resolution returns that entry's username and password and the
\* url jdbc:mysql://<first endpoint>/<database>, the database being the
\* entry's database key or else "spring-boot"; further entries and further
\* endpoints do not affect the result.
C15_FirstEntryFirstEndpoint ==
    (Called("_datasource") /\ IntegrationActive(ret.relations))
        => /\ ret.relations[1] = Credentials
                => Returned(Datasource("u", "p", "jdbc:mysql://host:3306/spring-boot"))
           /\ ret.relations[1] = Append(Credentials, Item("database", "db"))
                => Returned(Datasource("u", "p", "jdbc:mysql://host:3306/db"))
           /\ ret.relations[1] = OtherCredentials
                => Returned(Datasource("v", "q", "jdbc:mysql://other:3306/otherdb"))
           /\ ret.relations[1] \in { Credentials, Append(Credentials, Item("database", "db")),
                                     OtherCredentials }

C15_Witness ==
    /\ Called("_datasource")
    /\ ret.relations = << Credentials, OtherCredentials >>
    /\ Returned(Datasource("u", "p", "jdbc:mysql://host:3306/spring-boot"))

\* C16: when there is no relation data, or the first relation entry lacks
\* endpoints, username or password, datasource resolution returns the
\* all-empty triple and raises nothing; application-config resolution on a
\* JSON object then returns too, carrying the empty triple.
C16_IncompleteDataGivesEmptyTriple ==
    /\ (Called("_datasource") /\ ~IntegrationActive(ret.relations))
          => Returned(Datasource("", "", ""))
    /\ (Called("_application_config") /\ ~IntegrationActive(ret.relations)
          /\ config.application_config = json_dumps(JObj(<<>>)))
          => Returned(JObj(<< Item("spring",
                                   JObj(<< Item("datasource", Datasource("", "", "")) >>)) >>))

C16_Witness ==
    /\ Called("_datasource")
    /\ ret.relations = << Without(Credentials, "password"), OtherCredentials >>
    /\ Returned(Datasource("", "", ""))

\* C17: the datasource has no state of its own: a resolution made after the
\* database relation was removed sees no relation data and yields the empty
\* triple, so the service environment built from it (the one a layer would
\* carry) holds nothing of the previous integration's username, password or
\* url.
C17_DatasourceRecomputedAfterRemoval ==
    /\ (Called("_datasource") /\ ret.relations = <<>>) => Returned(Datasource("", "", ""))
    /\ (Called("_spring_boot_env") /\ ret.relations = <<>> /\ IsOk(ret.result)
          /\ dict_has(ret.result.val, "SPRING_APPLICATION_JSON"))
          => /\ EnvDatasource(ret.result.val) = Datasource("", "", "")
             /\ \A i \in 1..Len(dict_get(ret.result.val, "SPRING_APPLICATION_JSON")) :
                   dict_get(ret.result.val, "SPRING_APPLICATION_JSON")[i]
                       \notin { TStr("u"), TStr("p"), TStr("jdbc:mysql://host:3306/spring-boot") }

C17_Witness ==
    /\ Called("_spring_boot_env")
    /\ relations = <<>>
    /\ ret.relations = <<>>
    /\ ret.prev_relations = << Credentials >>
    /\ IsOk(ret.result)
    /\ dict_has(ret.result.val, "SPRING_APPLICATION_JSON")
    /\ EnvDatasource(ret.result.val) = Datasource("", "", "")

HeapExceeds ==
    BlockedStatus("Invalid jvm-config, Java heap memory specification exceeds application memory constraint")

\* the memory limit of the pod's spring-boot-app container is 1Gi
Limit1Gi(p) == p.containers[1].limits = MemoryLimit(1, "", "G", TRUE)

\* C18: a pass on a recognised application with jvm-config -Xms4G and a
\* container memory limit of 1Gi ends Blocked with "Invalid jvm-config, Java
\* heap memory specification exceeds application memory constraint" and
\* executes no dry run.
C18_HeapAboveLimitBlocksPass ==
    (PassConnected /\ Recognised(fs) /\ Limit1Gi(pod)
        /\ config.jvm_config = << Word("-Xms", 4, "G", "") >>)
        => (status = HeapExceeds /\ ~LogHasAny({"exec"}))

\* the call was stopped by the heap guard
HeapGuardRaised == Raised(ReconciliationError(HeapExceeds, FALSE))

\* C19: with several -Xms (or several -Xmx) flags the heap guard compares the
\* value of the last occurrence with the limit: under a limit of 1Gi,
\* "-Xmx4G -Xmx1G" and "-Xms4G -Xms1G" pass the guard, "-Xmx1G -Xmx4G" and
\* "-Xms1G -Xms4G" are stopped by it.
C19_LastOccurrenceDecides ==
    (Called("_jvm_config") /\ Limit1Gi(pod))
        => /\ config.jvm_config \in { << Word("-Xmx", 4, "G", ""), Word("-Xmx", 1, "G", "") >>,
                                      << Word("-Xms", 4, "G", ""), Word("-Xms", 1, "G", "") >> }
                => ~HeapGuardRaised
           /\ config.jvm_config \in { << Word("-Xmx", 1, "G", ""), Word("-Xmx", 4, "G", "") >>,
                                      << Word("-Xms", 1, "G", ""), Word("-Xms", 4, "G", "") >> }
                => HeapGuardRaised

\* the guard was evaluated on an earlier value above the limit and a later
\* one within it, and the call went on to detect the application
C19_Witness ==
    /\ Called("_jvm_config")
    /\ Limit1Gi(pod)
    /\ config.jvm_config = << Word("-Xmx", 4, "G", ""), Word("-Xmx", 1, "G", "") >>
    /\ ~HeapGuardRaised
    /\ \E i \in 1..Len(ret.result.log) : ret.result.log[i].op = "read_namespaced_pod"
    /\ \E i \in 1..Len(ret.result.log) : ret.result.log[i].op = "list_files"

\* C20: a jvm-config whose extracted -Xms or -Xmx value has a suffix outside
\* k/m/g (-Xmx1T, -Xms1t) fails as a validation error: a ReconciliationError
\* with a Blocked status that does not defer, and no other exception.
C20_UnparseableHeapValueIsBlocked ==
    (Called("_jvm_config")
        /\ config.jvm_config \in { << Word("-Xmx", 1, "T", "") >>, << Word("-Xms", 1, "t", "") >> })
        => /\ ret.result.tag = "raise"
           /\ ret.result.exc.type = "ReconciliationError"
           /\ ret.result.exc.new_status.kind = "blocked"
           /\ ~ret.result.exc.defer_event

\* the memory limit of the pod's spring-boot-app container is 2Gi
Limit2Gi(p) == p.containers[1].limits = MemoryLimit(2, "", "G", TRUE)

\* C21: the memory parser maps digits d with suffix k, m, g (either case) to
\* d*2^10, d*2^20, d*2^30 and bare digits to their value: 1G and 1g give 2^30,
\* 512m and 512M give 512*2^20, 3k and 3K give 3072, 2048 gives 2048; the
\* limit 2Gi is read as 2*2^30 bytes and 1Gi as 2^30. (Big(hi, lo) is
\* hi*2^20 + lo.)
C21_MemoryParserScalesByPowersOfTwo ==
    /\ Called("_parse_human_readable_units")
          => /\ ret.arg \in { Quantity(1, "", "G"), Quantity(1, "", "g") }
                  => Returned(Big(1024, 0))
             /\ ret.arg \in { Quantity(512, "", "m"), Quantity(512, "", "M") }
                  => Returned(Big(512, 0))
             /\ ret.arg \in { Quantity(3, "", "k"), Quantity(3, "", "K") }
                  => Returned(Big(0, 3072))
             /\ ret.arg = Quantity(2048, "", "") => Returned(Big(0, 2048))
             /\ ret.arg = Quantity(0, "", "") => Returned(Big(0, 0))
    /\ Called("_get_spring_boot_container_memory_constraint")
          => /\ Limit2Gi(pod) => Returned(Big(2048, 0))
             /\ Limit1Gi(pod) => Returned(Big(1024, 0))

C21_Witness ==
    /\ Called("_get_spring_boot_container_memory_constraint")
    /\ Limit2Gi(pod)
    /\ Returned(Big(2048, 0))

\* C22: a pass on a recognised application whose jvm-config (--invalid)
\* passes the heap guard and fails the dry run ends Blocked with exactly
\* "Invalid jvm-config", does not defer its event and applies no layer.
C22_FailedDryRunBlocksPass ==
    (PassConnected /\ Recognised(fs)
        /\ config.jvm_config = << Word("--invalid", -1, "", "") >>)
        => /\ status = BlockedStatus("Invalid jvm-config")
           /\ ~lastPass.deferred
           /\ ~LogHasAny({"add_layer"})

\* C23: a pass on a recognised application whose jvm-config (-Xmx1G) passes
\* the heap guard and the dry run ends Active, and the applied service
\* environment holds JAVA_TOOL_OPTIONS equal to the jvm-config.
C23_AcceptedJvmConfigReachesLayer ==
    (PassConnected /\ Recognised(fs) /\ config.application_config = <<>>
        /\ config.jvm_config = << Word("-Xmx", 1, "G", "") >>)
        => /\ status = ActiveStatus
           /\ dict_has(plan.services, SPRING_BOOT_APP)
           /\ dict_get(plan.services, SPRING_BOOT_APP).environment
                = << Item(JAVA_TOOL_OPTIONS, config.jvm_config) >>

\* the operations of the last call that touch the workload or the cluster
CallTouched(ops) == \E i \in 1..Len(ret.result.log) : ret.result.log[i].op \in ops

\* C24: with an empty jvm-config, JVM resolution returns the empty string
\* without reading the memory limit and without executing a process, and the
\* service environment has no JAVA_TOOL_OPTIONS entry; with a jvm-config
\* whose heap values parse, every resolution reads the memory limit anew,
\* exactly once.
C24_EmptyJvmConfigTouchesNothing ==
    /\ (Called("_jvm_config") /\ config.jvm_config = <<>>)
          => (Returned(<<>>) /\ ret.result.log = <<>>)
    /\ (Called("_spring_boot_env") /\ config.jvm_config = <<>> /\ IsOk(ret.result))
          => /\ ~dict_has(ret.result.val, JAVA_TOOL_OPTIONS)
             /\ ~CallTouched({"read_namespaced_pod", "exec", "can_connect"})
    /\ (Called("_jvm_config") /\ config.jvm_config # <<>>
          /\ config.jvm_config \notin { << Word("-Xmx", 1, "T", "") >>,
                                        << Word("-Xms", 1, "t", "") >> })
          => CountOp(ret.result.log, "read_namespaced_pod") = 1

C24_Witness ==
    /\ Called("_spring_boot_env")
    /\ config.jvm_config = <<>>
    /\ config.application_config = PortConfig(JInt(8888))
    /\ IsOk(ret.result)
    /\ dict_has(ret.result.val, "SPRING_APPLICATION_JSON")
    /\ ~dict_has(ret.result.val, JAVA_TOOL_OPTIONS)
    /\ ret.result.log = <<>>

\* C25: when the dry-run process does not end within its 60 seconds, the
\* timeout is translated into a failure the engine's handler turns into a
\* status (a ReconciliationError, or a result with an exit code) and no other
\* exception leaves the call.
C25_ExecTimeoutIsTranslated ==
    (Called("_exec") /\ ret.arg = JStr("timeout"))
        => \/ IsOk(ret.result)
           \/ ret.result.exc.type = "ReconciliationError"

\* C26: on every image that holds both buildpack markers, whatever /app
\* holds, classification returns the buildpack variant, whose command is
\* <runtime binary> -cp /workspace org.springframework.boot.loader.JarLauncher.
C26_BothMarkersGiveBuildpackVariant ==
    (Called("_detect_java_application") /\ BothMarkers(fs))
        => /\ IsOk(ret.result)
           /\ ret.result.val.variant = "BuildpackApplication"
           /\ command(ret.result.val)
                = << "/layers/paketo-buildpacks_bellsoft-liberica/jre/bin/java", "-cp",
                     "/workspace", "org.springframework.boot.loader.JarLauncher" >>

\* C27: on every image without both buildpack markers whose /app holds
\* exactly one entry ending in .jar (test.jar, other entries allowed),
\* classification returns the executable-archive variant with the path
\* /app/test.jar, and the service command is java -jar /app/test.jar.
C27_SingleJarGivesExecutableJarVariant ==
    (Called("_detect_java_application") /\ ~BothMarkers(fs)
        /\ JarsInApp(fs) = { File(APP_DIR, "test", ".jar") })
        => /\ IsOk(ret.result)
           /\ ret.result.val.variant = "ExecutableJarApplication"
           /\ ret.result.val.executable_jar_path = "/app/test.jar"
           /\ join(" ", command(ret.result.val)) = "java -jar /app/test.jar"

\* /app is a directory of the image
AppIsDir(image) ==
    \/ APP_DIR \in image.dirs
    \/ \E f \in image.files \cup image.dirs : Len(f) > 1 /\ f[1] = Name("app", "")

ClassificationError(message) == ReconciliationError(BlockedStatus(message), FALSE)

\* C28: without both buildpack markers, classification fails with a Blocked
\* error that does not defer, and whose message tells the cause: /app is a
\* directory without a .jar entry, "No jar file found in /app"; /app holds
\* two or more .jar entries, "Multiple jar files found in /app"; /app is
\* absent, "Unknown Java application type".
C28_ClassificationFailureMessages ==
    (Called("_detect_java_application") /\ ~BothMarkers(fs))
        => /\ (AppIsDir(fs) /\ JarsInApp(fs) = {})
                => Raised(ClassificationError("No jar file found in /app"))
           /\ Cardinality(JarsInApp(fs)) >= 2
                => Raised(ClassificationError("Multiple jar files found in /app"))
           /\ ~AppIsDir(fs) => Raised(ClassificationError("Unknown Java application type"))

C28_Witness ==
    /\ Called("_detect_java_application")
    /\ fs = FS({File(APP_DIR, "test", ".jar"), File(APP_DIR, "second", ".jar")}, {})
    /\ Raised(ClassificationError("Multiple jar files found in /app"))

\* the layer returned by the last call
LayerReturned == Called("_generate_spring_boot_layer") /\ IsOk(ret.result)

C30_CheckNamedSpringBootReady ==
    LayerReturned => ret.result.val.checks[1].k = "spring-boot-ready"

\* ------------------------------------------------------------------------
\* Layer application, ingress data, library probes
\* ------------------------------------------------------------------------
LayerApplied == ret.fn = "add_layer" /\ IsOk(ret.result)

\* the plan that a single application of a layer to an empty supervisor gives
AppliedOnce(layer) ==
    [services |-> layer.services, checks |-> layer.checks]

Keys(m) == [i \in 1..Len(m) |-> m[i].k]

\* the decimal numerals of the port numbers that occur
PortNumerals == { ToString(n) : n \in { 1, 8080, 8888 } }

\* C32: the ingress data has service-hostname (the option ingress-hostname if
\* non-empty, else the application name), service-name (the application
\* name) and service-port (the decimal numeral of the resolved port); it has
\* rewrite-enabled "true", rewrite-target "/$2" and path-routes
\* "<prefix>(/|$)(.*)" exactly when ingress-strip-url-prefix is non-empty, and
\* no other key.
C32_IngressData ==
    (Called("_nginx_ingress_config") /\ IsOk(ret.result)) =>
        /\ dict_get(ret.result.val, "service-hostname")
             = (IF ret.arg.ingress_hostname # "" THEN ret.arg.ingress_hostname ELSE APP_NAME)
        /\ dict_get(ret.result.val, "service-name") = APP_NAME
        /\ dict_get(ret.result.val, "service-port") \in PortNumerals
        /\ config.application_config = PortConfig(JInt(8888))
             => dict_get(ret.result.val, "service-port") = "8888"
        /\ IF ret.arg.ingress_strip_url_prefix # ""
           THEN /\ Keys(ret.result.val)
                     = << "service-hostname", "service-name", "service-port",
                          "rewrite-enabled", "rewrite-target", "path-routes" >>
                /\ dict_get(ret.result.val, "rewrite-enabled") = "true"
                /\ dict_get(ret.result.val, "rewrite-target") = "/$2"
                /\ dict_get(ret.result.val, "path-routes")
                     = ret.arg.ingress_strip_url_prefix \o "(/|$)(.*)"
           ELSE Keys(ret.result.val) = << "service-hostname", "service-name", "service-port" >>

\* C33: for the executable-jar variant, has_java_library(prefix) returns true
\* exactly when the table of contents of the archive has an entry whose base
\* file name (what follows the last "/") starts with the prefix and ends with
\* ".jar"; a match in a directory name only, or without the .jar suffix, does
\* not count.
C33_ExecutableJarLibraryProbe ==
    (Called("ExecutableJarApplication.has_java_library") /\ IsOk(ret.result)) =>
        ret.result.val
          = (\E i \in 1..Len(ret.arg.entries) :
                 /\ startswith(ret.arg.entries[i].base, ret.arg.library)
                 /\ endswith(ret.arg.entries[i].base, ".jar"))

\* the probe for the MySQL connector answered no on a listing whose only
\* match is a directory name
C33_Witness ==
    /\ Called("ExecutableJarApplication.has_java_library")
    /\ ret.arg.library = "mysql-connector-j"
    /\ ret.arg.entries
         = << Entry("mysql-connector-j/", ""), Entry("mysql-connector-j/", "log4j.jar") >>
    /\ Returned(FALSE)

\* the files that lie directly in the library directory of the image
LibraryFiles == { f \in fs.files : Len(f) = Len(LIB_DIR) + 1 /\ IsPrefix(LIB_DIR, f) }

LibraryDirPresent == LIB_DIR \in fs.dirs \/ Below(fs, LIB_DIR) # {}

\* C34: for the buildpack variant, has_java_library(prefix) returns true
\* exactly when <class path>/BOOT-INF/lib holds a file whose name starts with
\* the prefix and ends with ".jar"; when the library directory does not exist
\* it returns false and raises nothing.
C34_BuildpackLibraryProbe ==
    (Called("BuildpackApplication.has_java_library") /\ BothMarkers(fs)) =>
        /\ IsOk(ret.result)
        /\ ret.result.val
             = (\E f \in LibraryFiles :
                    /\ startswith(NameStr(f[Len(f)]), ret.arg.library)
                    /\ endswith(NameStr(f[Len(f)]), ".jar"))

\* ------------------------------------------------------------------------
\* Order of the actions of a pass, connectivity, dry run, heap guard
\* ------------------------------------------------------------------------
\* the positions of the operations of the last pass that have one of the names
PassOps(ops) == { i \in 1..Len(lastPass.log) : lastPass.log[i].op \in ops }

\* C35: in every pass the first observable action is the write of the status
\* Maintenance; add_layer comes only after the layer was computed without an
\* error (a pass whose layer computation failed has no add_layer); replan
\* comes directly after add_layer; the status Active is written directly
\* after replan. A pass without add_layer or replan never shows Active.
C35_PassOrder ==
    PassRan =>
        /\ lastPass.log # <<>>
        /\ lastPass.log[1] = Op("status", "maintenance")
        /\ \A i \in PassOps({"add_layer"}) :
               /\ \A j \in 2..(i - 1) : lastPass.log[j].op \in FsProbeOps \cup {"can_connect", "exec"}
               /\ i < Len(lastPass.log)
               /\ lastPass.log[i + 1].op = "replan"
        /\ \A i \in PassOps({"replan"}) : i > 1 /\ lastPass.log[i - 1].op = "add_layer"
        /\ \A i \in 2..Len(lastPass.log) :
               lastPass.log[i] = Op("status", "active") => lastPass.log[i - 1].op = "replan"
        /\ (lastPass.escaped # "" \/ status.kind \in {"blocked", "waiting"})
               => PassOps(SupervisorOps) = {}
        /\ PassOps(SupervisorOps) = {} => status # ActiveStatus

\* a pass on a connectable container whose layer computation failed in the
\* classification: Maintenance was written first, the supervisor was not called
C35_Witness ==
    /\ PassConnected
    /\ lastPass.log[1] = Op("status", "maintenance")
    /\ LogHasAny(FsProbeOps)
    /\ status.kind = "blocked"
    /\ PassOps(SupervisorOps) = {}

\* the container was up when the last pass began and dropped at one of the
\* operations of the pass
DroppedDuringPass ==
    /\ PassRan
    /\ lastPass.up
    /\ lastPass.drop_at # 0
    /\ Cardinality(PassOps(ContainerOps)) >= lastPass.drop_at

\* C36: a pass during which the container stops answering, at any point
\* before the layer is applied, ends Waiting with its event deferred and the
\* supervisor untouched, every container operation being preceded by its own
\* connectivity check.
C36_DropDuringPassWaits ==
    DroppedDuringPass =>
        /\ status = WaitingStatus("Waiting for pebble")
        /\ lastPass.deferred
        /\ lastPass.escaped = ""
        /\ plan = lastPass.prev_plan

\* the processes executed in the workload container by the last pass
DryRuns == { i \in 1..Len(lastPass.log) : lastPass.log[i].op = "exec" }

\* the start command of the service in the supervisor's plan
AppliedCommand == dict_get(plan.services, SPRING_BOOT_APP).command

\* C37: a pass with a non-empty jvm-config (-Xmx1G, within the quota) on a
\* recognised application reaches the dry run and ends Active; one process
\* was executed, its command is the start command applied in the layer with
\* "--dry-run" inserted after the first word, and the application was
\* classified once in the pass.
C37_DryRunValidatesAppliedCommand ==
    (PassConnected /\ Recognised(fs) /\ config.application_config = <<>>
        /\ config.jvm_config = << Word("-Xmx", 1, "G", "") >>)
        => /\ status = ActiveStatus
           /\ Cardinality(DryRuns) = 1
           /\ dict_has(plan.services, SPRING_BOOT_APP)
           /\ \A i \in DryRuns :
                \E k \in 1..Len(AppliedCommand) :
                    /\ SubSeq(AppliedCommand, k + 1, k + 1) = " "
                    /\ lastPass.log[i].arg = SubSeq(AppliedCommand, 1, k) \o " --dry-run"
           /\ Cardinality({ i \in PassOps({"exists"}) :
                              lastPass.log[i].arg = PathStr(JAVA_PATH) }) = 1

\* the heap size in KiB that the last word of a jvm-config with the given
\* flag asks for, a suffix t or T included, and 0 when no word has the flag
\* (a size without suffix is a number of bytes; those of UnitJvmConfigs are
\* multiples of 1024)
HeapKiB(flag, cfg) ==
    LET words == { i \in 1..Len(cfg) : cfg[i].opt = flag /\ cfg[i].n >= 0 }
        last == CHOOSE i \in words : \A j \in words : j <= i
        w == cfg[last]
    IN  IF words = {} THEN 0
        ELSE CASE w.unit \in {"k", "K"} -> w.n
               [] w.unit \in {"m", "M"} -> w.n * 1024
               [] w.unit \in {"g", "G"} -> w.n * 1024 * 1024
               [] w.unit \in {"t", "T"} -> w.n * 1024 * 1024 * 1024
               [] OTHER -> w.n \div 1024

\* the memory limit in KiB of the pod's spring-boot-app container, 0 when
\* the container has no limits or no memory limit
LimitKiB(p) ==
    IF Limit1Gi(p) THEN 1024 * 1024
    ELSE IF Limit2Gi(p) THEN 2 * 1024 * 1024
    ELSE 0

MaxOf(a, b) == IF a > b THEN a ELSE b

\* C38: called with a non-empty jvm-config, _jvm_config raises the error of
\* the heap guard if and only if the container has a memory limit L and the
\* larger of the -Xms and -Xmx values exceeds L: a value equal to L passes,
\* an absent flag counts as 0, and without limits or without a memory limit
\* every heap value passes.
C38_HeapGuardRejectsAboveLimit ==
    (Called("_jvm_config") /\ config.jvm_config # <<>>)
        => (HeapGuardRaised
                <=> /\ LimitKiB(pod) # 0
                    /\ MaxOf(HeapKiB("-Xms", config.jvm_config),
                             HeapKiB("-Xmx", config.jvm_config)) > LimitKiB(pod))

\* ------------------------------------------------------------------------
\* Datasource override, wrapper dispatch
\* ------------------------------------------------------------------------
\* the text is the whole of a JSON object
ParsesToObject(text) ==
    /\ text # <<>>
    /\ ParseValue(text).ok
    /\ ParseValue(text).rest = <<>>
    /\ isinstance_dict(ParseValue(text).val)

\* the members of a dict under the keys other than key
OtherMembers(m, key) == SelectSeq(m, LAMBDA item : item.k # key)

\* the object of the SPRING_APPLICATION_JSON value of an environment
EmittedJson(env) == ParseValue(dict_get(env, "SPRING_APPLICATION_JSON")).val

\* C39: for every application-config that parses to a JSON object (jvm-config
\* empty), the service environment is resolved and its SPRING_APPLICATION_JSON
\* has spring.datasource equal to the currently resolved triple, the all-empty
\* triple when no database integration is active even if the operator
\* declared a spring.datasource block; every key outside spring.datasource
\* is passed through unchanged.
C39_ObjectConfigCarriesResolvedDatasource ==
    (Called("_spring_boot_env") /\ ret.relations = relations /\ config.jvm_config = <<>>
        /\ ParsesToObject(config.application_config))
        => /\ IsOk(ret.result)
           /\ dict_has(ret.result.val, "SPRING_APPLICATION_JSON")
           /\ EnvDatasource(ret.result.val) = _datasource(Self(fs, config, relations, 0))
           /\ ~IntegrationActive(relations)
                => EnvDatasource(ret.result.val) = Datasource("", "", "")
           /\ OtherMembers(EmittedJson(ret.result.val).m, "spring")
                = OtherMembers(ParseValue(config.application_config).val.m, "spring")
           /\ dict_has(ParseValue(config.application_config).val.m, "spring")
                => OtherMembers(dict_get(EmittedJson(ret.result.val).m, "spring").m, "datasource")
                     = OtherMembers(dict_get(ParseValue(config.application_config).val.m,
                                             "spring").m, "datasource")

\* the log of the last dispatch and the positions at which a wrapper was run
DispatchLog == ret.result.log

Runs(wrapper_name) ==
    { i \in 1..Len(DispatchLog) :
        DispatchLog[i].op = "run" /\ DispatchLog[i].arg = wrapper_name }

\* the relation-broken event of a relation that is not the database relation
ForeignRelationBroken(event) ==
    event.type = "RelationBrokenEvent" /\ event.relation.name # MYSQL_CLIENT

\* the wrapper's run at position i is followed by its callback, no other
\* wrapper being run in between, and the callback gets the output of the run:
\* a dict with the key mysql_client, or the empty dict of the ingress wrapper
CallbackFollows(wrapper_name, i) ==
    \E j \in (i + 1)..Len(DispatchLog) :
        /\ DispatchLog[j].op = "callback"
        /\ DispatchLog[j].arg = WRAPPER_LIBRARY_MAP_callback(wrapper_name)
        /\ \A h \in (i + 1)..(j - 1) : DispatchLog[h].op \notin { "run", "callback" }
        /\ IF wrapper_name = MYSQL_CLIENT
           THEN Keys(DispatchLog[j].output) = << MYSQL_CLIENT >>
           ELSE DispatchLog[j].output = <<>>

\* C40: in the dispatch of an event, a wrapper is run only for the events of
\* its own integration: on the relation-broken of another relation (that of
\* nginx_ingress) the MySQL wrapper is not run and the database relation data
\* is not indexed with the id of that relation; every registered wrapper
\* whose predicate holds is run exactly once, every other not at all, and
\* each run is followed at once by the wrapper's callback with its output.
C40_WrappersRunOnOwnEvents ==
    Called("reconcile") =>
        /\ ForeignRelationBroken(ret.arg.event)
             => /\ Runs(MYSQL_CLIENT) = {}
                /\ \A i \in 1..Len(DispatchLog) : DispatchLog[i].op # "relation_data[id]"
        /\ \A k \in 1..Len(ret.arg.wrappers) :
             /\ Cardinality(Runs(ret.arg.wrappers[k]))
                  = IF must_run_on(ret.arg.wrappers[k], ret.arg.event) THEN 1 ELSE 0
             /\ \A i \in Runs(ret.arg.wrappers[k]) : CallbackFollows(ret.arg.wrappers[k], i)

====
